---- MODULE Spec2Model ----
(***************************************************************************)
(* A model of the statistical core of anthropometry-playground:           *)
(* Series statistics, getEvidenceCategory, BayesianClassifier and          *)
(* LDAClassifier (site/assets/scripts/data-utils.js and math.js).          *)
(*                                                                         *)
(* JavaScript numbers are modelled as exact extended rationals: a finite   *)
(* rational n/d, +Infinity, -Infinity or NaN, with the IEEE-754 rules for  *)
(* the special values (x/0, Infinity - Infinity, comparisons with NaN).    *)
(* Rounding is not modelled.  Math.exp and Math.log are modelled as the    *)
(* exponential and logarithm to the base ExpBase = 4, the smallest         *)
(* rational base whose exponential maps the half-integers (the values     *)
(* -z*z/2 of a Gaussian with integer z) to rationals: x |-> 4^x and its    *)
(* inverse obey the same laws as e^x and ln (monotone, exp(a+b) =          *)
(* exp(a)*exp(b), exp(0) = 1, log(0) = -Infinity, exp(-Infinity) = 0).     *)
(* The logarithm of a positive rational q that is no power of two is the   *)
(* number [k |-> "log"] carrying q; the square root of a rational that is  *)
(* no square is the number [k |-> "sqrt"].  A value that leaves this       *)
(* number system is [k |-> "unrep"]; NoUnrep states that none is reached.  *)
(***************************************************************************)
EXTENDS Integers, Sequences, FiniteSets, TLC

----------------------------------------------------------------------------
(* Numbers *)

AbsInt(i) == IF i < 0 THEN -i ELSE i

RECURSIVE Gcd(_, _)
Gcd(a, b) == IF b = 0 THEN a ELSE Gcd(b, a % b)

SignInt(i) == IF i < 0 THEN -1 ELSE IF i > 0 THEN 1 ELSE 0

\* n/d for d > 0, given g = gcd(|n|, d)
Reduced(n, d, g) == [k |-> "rat", n |-> n \div g, d |-> d \div g]

\* The rational n/d in lowest terms, d > 0.
Rat(n, d) == Reduced(SignInt(d) * n, AbsInt(d), Gcd(AbsInt(n), AbsInt(d)))

Int2Num(i) == [k |-> "rat", n |-> i, d |-> 1]

Zero == Int2Num(0)
One == Int2Num(1)
Half == Rat(1, 2)
Inf == [k |-> "inf", n |-> 0, d |-> 1]
NInf == [k |-> "ninf", n |-> 0, d |-> 1]
NaN == [k |-> "nan", n |-> 0, d |-> 1]
Unrep == [k |-> "unrep", n |-> 0, d |-> 1]

\* log to the base ExpBase of the positive rational n/d
LogOf(n, d) == [k |-> "log", n |-> n, d |-> d]
\* square root of the positive rational n/d
SqrtOf(n, d) == [k |-> "sqrt", n |-> n, d |-> d]

IsRat(a) == a.k = "rat"
IsNaN(a) == a.k = "nan"
IsZero(a) == a.k = "rat" /\ a.n = 0

\* sign of a number: -1, 0, 1 (a logarithm's sign is that of q - 1)
Sign(a) ==
    CASE a.k = "rat" -> SignInt(a.n)
      [] a.k = "inf" -> 1
      [] a.k = "ninf" -> -1
      [] a.k = "log" -> SignInt(a.n - a.d)
      [] a.k = "sqrt" -> 1
      [] OTHER -> 0

RECURSIVE Pow2(_)
Pow2(e) == IF e = 0 THEN 1 ELSE 2 * Pow2(e - 1)

RECURSIVE IsPow2Int(_)
IsPow2Int(i) == i = 1 \/ (i > 1 /\ i % 2 = 0 /\ IsPow2Int(i \div 2))

RECURSIVE Log2Int(_)
Log2Int(i) == IF i <= 1 THEN 0 ELSE 1 + Log2Int(i \div 2)

\* 4^x as a positive rational, for the finite numbers where it is one:
\* x = m/2 gives 2^m, x = log(q) gives q.
HasExpForm(a) ==
    \/ a.k = "log"
    \/ a.k = "rat" /\ a.d \in {1, 2}

\* 2^m
HalfPow(m) ==
    IF m >= 0 THEN [k |-> "rat", n |-> Pow2(m), d |-> 1]
    ELSE [k |-> "rat", n |-> 1, d |-> Pow2(-m)]

ExpForm(a) ==
    IF a.k = "log" THEN [k |-> "rat", n |-> a.n, d |-> a.d]
    ELSE HalfPow(IF a.d = 1 THEN 2 * a.n ELSE a.n)

\* m/2
HalfInt(m) ==
    IF m % 2 = 0 THEN Int2Num(m \div 2) ELSE [k |-> "rat", n |-> m, d |-> 2]

\* the number whose exponential is the positive rational q
FromExpForm(q) ==
    IF q.n = 1 /\ IsPow2Int(q.d) THEN HalfInt(-Log2Int(q.d))
    ELSE IF q.d = 1 /\ IsPow2Int(q.n) THEN HalfInt(Log2Int(q.n))
    ELSE LogOf(q.n, q.d)

\* a * b for non-zero rationals, given g1 = gcd(|a.n|, b.d) and
\* g2 = gcd(|b.n|, a.d)
CrossMul(a, b, g1, g2) ==
    [k |-> "rat",
     n |-> (a.n \div g1) * (b.n \div g2),
     d |-> (a.d \div g2) * (b.d \div g1)]

RatMul(a, b) ==
    IF a.n = 0 \/ b.n = 0 THEN Zero
    ELSE CrossMul(a, b, Gcd(AbsInt(a.n), b.d), Gcd(AbsInt(b.n), a.d))

\* 1 / a for a non-zero rational
RatInv(a) == [k |-> "rat", n |-> SignInt(a.n) * a.d, d |-> AbsInt(a.n)]

\* a + b for rationals, given g = gcd(a.d, b.d)
CrossAdd(a, b, g) ==
    Rat(a.n * (b.d \div g) + b.n * (a.d \div g), (a.d \div g) * b.d)

RatAdd(a, b) == CrossAdd(a, b, Gcd(a.d, b.d))

\* a < b for rationals, given g = gcd(a.d, b.d)
CrossLess(a, b, g) == a.n * (b.d \div g) < b.n * (a.d \div g)

RatLess(a, b) == CrossLess(a, b, Gcd(a.d, b.d))

IsFinite(a) == a.k \in {"rat", "log", "sqrt"}

Neg(a) ==
    CASE a.k = "rat" -> [k |-> "rat", n |-> -a.n, d |-> a.d]
      [] a.k = "inf" -> NInf
      [] a.k = "ninf" -> Inf
      [] a.k = "log" -> LogOf(a.d, a.n)
      [] a.k = "sqrt" -> Unrep
      [] OTHER -> a

\* a + b
Add(a, b) ==
    CASE a.k = "nan" \/ b.k = "nan" -> NaN
      [] a.k = "unrep" \/ b.k = "unrep" -> Unrep
      [] a.k = "inf" -> IF b.k = "ninf" THEN NaN ELSE Inf
      [] a.k = "ninf" -> IF b.k = "inf" THEN NaN ELSE NInf
      [] b.k \in {"inf", "ninf"} -> b
      [] a.k = "rat" /\ b.k = "rat" -> RatAdd(a, b)
      [] HasExpForm(a) /\ HasExpForm(b) ->
            FromExpForm(RatMul(ExpForm(a), ExpForm(b)))
      [] OTHER -> Unrep

Sub(a, b) == Add(a, Neg(b))

\* the infinity of sign s, NaN for s = 0
Infinite(s) == IF s = 0 THEN NaN ELSE IF s > 0 THEN Inf ELSE NInf

\* a * b
Mul(a, b) ==
    CASE a.k = "nan" \/ b.k = "nan" -> NaN
      [] a.k = "unrep" \/ b.k = "unrep" -> Unrep
      [] a.k \in {"inf", "ninf"} \/ b.k \in {"inf", "ninf"} ->
            Infinite(Sign(a) * Sign(b))
      [] a.k = "rat" /\ b.k = "rat" -> RatMul(a, b)
      [] IsZero(a) \/ IsZero(b) -> Zero
      [] a = One -> b
      [] b = One -> a
      [] OTHER -> Unrep

\* a / b
Div(a, b) ==
    CASE a.k = "nan" \/ b.k = "nan" -> NaN
      [] a.k = "unrep" \/ b.k = "unrep" -> Unrep
      [] a.k \in {"inf", "ninf"} ->
            IF b.k \in {"inf", "ninf"} THEN NaN
            ELSE IF Sign(b) < 0 THEN Neg(a) ELSE a
      [] b.k \in {"inf", "ninf"} -> Zero
      [] IsZero(b) -> Infinite(Sign(a))
      [] a.k = "rat" /\ b.k = "rat" -> RatMul(a, RatInv(b))
      [] b = One -> a
      [] OTHER -> Unrep

\* a < b; false when either is NaN
Less(a, b) ==
    CASE a.k \in {"nan", "unrep"} \/ b.k \in {"nan", "unrep"} -> FALSE
      [] a.k = "inf" \/ b.k = "ninf" -> FALSE
      [] a.k = "ninf" \/ b.k = "inf" -> TRUE
      [] a.k = "rat" /\ b.k = "rat" -> RatLess(a, b)
      [] HasExpForm(a) /\ HasExpForm(b) -> RatLess(ExpForm(a), ExpForm(b))
      [] OTHER -> FALSE

Greater(a, b) == Less(b, a)

\* a === b on numbers (NaN differs from itself)
NumEq(a, b) == a.k \notin {"nan", "unrep"} /\ a = b

Geq(a, b) == Greater(a, b) \/ NumEq(a, b)
Leq(a, b) == Less(a, b) \/ NumEq(a, b)

\* Math.abs
Abs(a) == IF Sign(a) < 0 THEN Neg(a) ELSE a

RECURSIVE ISqrt(_, _)
ISqrt(i, r) == IF r * r >= i THEN r ELSE ISqrt(i, r + 1)

IsSquare(i) == ISqrt(i, 0) * ISqrt(i, 0) = i

\* Math.sqrt
Sqrt(a) ==
    CASE a.k = "nan" -> NaN
      [] a.k = "inf" -> Inf
      [] a.k = "ninf" -> NaN
      [] a.k = "rat" ->
            IF a.n < 0 THEN NaN
            ELSE IF IsSquare(a.n) /\ IsSquare(a.d)
                 THEN Rat(ISqrt(a.n, 0), ISqrt(a.d, 0))
                 ELSE SqrtOf(a.n, a.d)
      [] OTHER -> Unrep

\* Math.log (to the base ExpBase)
Log(a) ==
    CASE a.k = "nan" -> NaN
      [] a.k = "inf" -> Inf
      [] a.k = "ninf" -> NaN
      [] a.k = "rat" ->
            IF a.n < 0 THEN NaN
            ELSE IF a.n = 0 THEN NInf
            ELSE FromExpForm(a)
      [] OTHER -> Unrep

\* Math.exp (to the base ExpBase)
Exp(a) ==
    CASE a.k = "nan" -> NaN
      [] a.k = "inf" -> Inf
      [] a.k = "ninf" -> Zero
      [] HasExpForm(a) -> ExpForm(a)
      [] OTHER -> Unrep

\* Math.max of a sequence of numbers: -Infinity when empty, NaN if any is NaN
RECURSIVE MathMax(_)
MathMax(s) ==
    IF s = <<>> THEN NInf
    ELSE LET m == MathMax(Tail(s))
             h == Head(s)
         IN  IF h.k = "nan" \/ m.k = "nan" THEN NaN
             ELSE IF h.k = "unrep" \/ m.k = "unrep" THEN Unrep
             ELSE IF Greater(h, m) THEN h ELSE m

----------------------------------------------------------------------------
(* math.js / data-utils.js: free statistics functions.  An array argument  *)
(* is the record valuesOf returns: [isArray, items, length].               *)

\* A JavaScript array of numbers.
ArrayOf(items) == [isArray |-> TRUE, items |-> items, length |-> Len(items)]

\* Object.prototype.constructor, the function Object (its length is 1): what
\* values[dim] yields for a name every object inherits.
ObjectFunction == [isArray |-> FALSE, items |-> <<>>, length |-> 1]

\* The property names a plain object inherits from Object.prototype with a
\* truthy value of non-zero length.
InheritedNames == {"constructor"}

\* the array with the elements of the sequence f, each computed once
Array(f) == f \o <<>>

RECURSIVE SumSeq(_, _)
\* x.reduce((s, v) => s + term(v), 0) over a sequence of numbers already mapped
SumSeq(terms, acc) ==
    IF terms = <<>> THEN acc ELSE SumSeq(Tail(terms), Add(acc, Head(terms)))

\* x.reduce is not a function: reduce is called on a value that is no array
ReduceThrows(x) == x.length # 0 /\ ~x.isArray

mean(x) ==
    IF x.length = 0 THEN Zero
    ELSE Div(SumSeq([i \in 1..Len(x.items) |-> Int2Num(x.items[i])], Zero),
             Int2Num(x.length))

\* a ** 2
Square(a) == Mul(a, a)

stddev(x, mx) ==
    IF x.length = 0 THEN Zero
    ELSE Sqrt(Div(SumSeq([i \in 1..Len(x.items) |->
                            Square(Sub(Int2Num(x.items[i]), mx))], Zero),
                  Int2Num(x.length)))

\* a faulty covariance, for comparison: the sample covariance, over N - 1
covarianceSample(x, mx, y, my) ==
    IF x.length # y.length \/ x.length = 0 THEN Zero
    ELSE Div(SumSeq([i \in 1..Len(x.items) |->
                        Mul(Sub(Int2Num(x.items[i]), mx),
                            Sub(Int2Num(y.items[i]), my))], Zero),
             Int2Num(x.length - 1))

covariance(x, mx, y, my) ==
    IF x.length # y.length \/ x.length = 0 THEN Zero
    ELSE Div(SumSeq([i \in 1..Len(x.items) |->
                        Mul(Sub(Int2Num(x.items[i]), mx),
                            Sub(Int2Num(y.items[i]), my))], Zero),
             Int2Num(x.length))

\* Math.sqrt(2 * Math.PI) = 2.5066..., as the rational 5/2
SQRT_2PI == Rat(5, 2)

\* the density at the standardised value z
DensityAt(z, sx) ==
    Mul(Div(One, Mul(sx, SQRT_2PI)), Exp(Mul(Mul(Neg(Half), z), z)))

\* a faulty density, for comparison: the exponent has the wrong sign
gaussianPdfGrowing(x, mx, sx) ==
    IF NumEq(sx, Zero) THEN Zero
    ELSE Mul(Div(One, Mul(sx, SQRT_2PI)),
             Exp(Mul(Mul(Half, Div(Sub(x, mx), sx)), Div(Sub(x, mx), sx))))

gaussianPdf(x, mx, sx) ==
    IF NumEq(sx, Zero) THEN Zero ELSE DensityAt(Div(Sub(x, mx), sx), sx)

zScore(x, mx, sx) ==
    IF NumEq(sx, Zero) THEN Zero ELSE Div(Sub(x, mx), sx)

----------------------------------------------------------------------------
(* class Series: values is a function from the own dimension names to      *)
(* integer sequences; stats holds the memoised statistics, each a function *)
(* from the keys computed so far to their values.                          *)

EmptyStats ==
    [mean |-> <<>>, stddev |-> <<>>, pdf |-> <<>>,
     covariance |-> <<>>, correlation |-> <<>>]

\* new Series(values)
NewSeries(values) == [values |-> values, stats |-> EmptyStats]

Series_dimensions(s) == DOMAIN s.values

\* this.values[dim] || []
Series_valuesOf(s, dim) ==
    IF dim \in DOMAIN s.values THEN ArrayOf(s.values[dim])
    ELSE IF dim \in InheritedNames THEN ObjectFunction
    ELSE ArrayOf(<<>>)

\* Series.mean throws (inside mean(dimValues)) when the value is no array
Series_meanThrows(s, dim) ==
    dim \notin DOMAIN s.stats.mean /\ ReduceThrows(Series_valuesOf(s, dim))

Series_mean(s, dim) ==
    IF dim \in DOMAIN s.stats.mean THEN s.stats.mean[dim]
    ELSE mean(Series_valuesOf(s, dim))

Series_stddev(s, dim) ==
    IF dim \in DOMAIN s.stats.stddev THEN s.stats.stddev[dim]
    ELSE stddev(Series_valuesOf(s, dim), Series_mean(s, dim))

\* a faulty key, for comparison: the first dimension alone
PairKeyFirst(dim1, dim2) == dim1

\* the key `${dim1},${dim2}` of the bivariate caches
PairKey(dim1, dim2) == dim1 \o "," \o dim2

Series_covariance(s, dim1, dim2) ==
    IF PairKey(dim1, dim2) \in DOMAIN s.stats.covariance
    THEN s.stats.covariance[PairKey(dim1, dim2)]
    ELSE covariance(Series_valuesOf(s, dim1), Series_mean(s, dim1),
                    Series_valuesOf(s, dim2), Series_mean(s, dim2))

----------------------------------------------------------------------------
(* getEvidenceCategory (Lee & Wagenmakers scale) *)

\* a faulty scale, for comparison: its lower bounds are exclusive
CategoryOfStrict(absBf, favors) ==
    IF Greater(absBf, Int2Num(100))
    THEN [category |-> "extreme", label |-> "Extreme", favors |-> favors]
    ELSE IF Greater(absBf, Int2Num(30))
    THEN [category |-> "veryStrong", label |-> "Very Strong", favors |-> favors]
    ELSE IF Greater(absBf, Int2Num(10))
    THEN [category |-> "strong", label |-> "Strong", favors |-> favors]
    ELSE IF Greater(absBf, Int2Num(3))
    THEN [category |-> "moderate", label |-> "Moderate", favors |-> favors]
    ELSE [category |-> "anecdotal", label |-> "Anecdotal", favors |-> favors]

\* the branch of getEvidenceCategory taken for absBf
CategoryOf(absBf, favors) ==
    IF Geq(absBf, Int2Num(100))
    THEN [category |-> "extreme", label |-> "Extreme", favors |-> favors]
    ELSE IF Geq(absBf, Int2Num(30))
    THEN [category |-> "veryStrong", label |-> "Very Strong", favors |-> favors]
    ELSE IF Geq(absBf, Int2Num(10))
    THEN [category |-> "strong", label |-> "Strong", favors |-> favors]
    ELSE IF Geq(absBf, Int2Num(3))
    THEN [category |-> "moderate", label |-> "Moderate", favors |-> favors]
    ELSE [category |-> "anecdotal", label |-> "Anecdotal", favors |-> favors]

getEvidenceCategory(bf) ==
    IF Geq(bf, One) THEN CategoryOf(bf, "first")
    ELSE CategoryOf(Div(One, bf), "second")

----------------------------------------------------------------------------
(* A point is a JavaScript object mapping dimension names to numbers,      *)
(* modelled as the sequence of its [dim, value] entries in enumeration     *)
(* order (for..in and Object.keys), the names distinct.                    *)

PointDims(point) == Array([i \in 1..Len(point) |-> point[i].dim])
PointKeys(point) == {point[i].dim : i \in 1..Len(point)}
PointValue(point, dim) ==
    Int2Num((CHOOSE e \in {point[i] : i \in 1..Len(point)} : e.dim = dim).value)

\* an exception leaving a method
Thrown == [k |-> "throw", n |-> 0, d |-> 1]

\* labels[i], undefined past the end of the array
LabelAt(labels, i) == IF i \in 1..Len(labels) THEN labels[i] ELSE "undefined"

\* Array.prototype.slice(0, k)
Slice0(arr, k) == SubSeq(arr, 1, IF k < Len(arr) THEN k ELSE Len(arr))

----------------------------------------------------------------------------
(* class BayesianClassifier *)

DEFAULT_LABELS == <<"Male", "Female">>

\* new BayesianClassifier(seriesList)
NewBayesianClassifier(seriesList) ==
    [kind |-> "bayes",
     seriesList |-> seriesList,
     labels |-> Slice0(DEFAULT_LABELS, Len(seriesList)),
     priors |-> [i \in 1..Len(seriesList) |->
                    Div(One, Int2Num(Len(seriesList)))]]

RECURSIVE LogProbLoopSkip(_, _, _, _)
\* a faulty inner loop, for comparison: it skips a dimension of density 0
LogProbLoopSkip(series, point, i, logProb) ==
    IF i > Len(point) THEN logProb
    ELSE IF Series_meanThrows(series, point[i].dim) THEN Thrown
    ELSE IF Greater(gaussianPdf(Int2Num(point[i].value),
                                Series_mean(series, point[i].dim),
                                Series_stddev(series, point[i].dim)), Zero)
         THEN LogProbLoopSkip(series, point, i + 1,
                  Add(logProb, Log(gaussianPdf(Int2Num(point[i].value),
                                       Series_mean(series, point[i].dim),
                                       Series_stddev(series, point[i].dim)))))
         ELSE LogProbLoopSkip(series, point, i + 1, logProb)

RECURSIVE LogProbLoop(_, _, _, _)
\* the inner loop of computeLogPosteriors over the dimensions of the point,
\* from entry i on, for one series
LogProbLoop(series, point, i, logProb) ==
    IF i > Len(point) THEN logProb
    ELSE IF Series_meanThrows(series, point[i].dim) THEN Thrown
    ELSE LET value == Int2Num(point[i].value)
             m == Series_mean(series, point[i].dim)
             sd == Series_stddev(series, point[i].dim)
             p == gaussianPdf(value, m, sd)
         IN  IF Greater(p, Zero)
             THEN LogProbLoop(series, point, i + 1, Add(logProb, Log(p)))
             ELSE NInf

\* the log-posterior computeLogPosteriors gives class i
ClassLogPosterior(c, point, i) ==
    LogProbLoop(c.seriesList[i], point, 1, Log(c.priors[i]))

\* BayesianClassifier.computeLogPosteriors(point) throws (a TypeError out of
\* series.mean)
Bayes_computeLogPosteriorsThrows(c, point) ==
    \E i \in 1..Len(c.seriesList) : ClassLogPosterior(c, point, i) = Thrown

\* BayesianClassifier.computeLogPosteriors(point): one entry per series
Bayes_computeLogPosteriors(c, point) ==
    Array([i \in 1..Len(c.seriesList) |->
        [series |-> i, label |-> LabelAt(c.labels, i),
         logPosterior |-> ClassLogPosterior(c, point, i)]])

RECURSIVE ClassifyLoopLast(_, _, _, _)
\* a faulty loop, for comparison: a later class of equal log-posterior wins
ClassifyLoopLast(results, i, maxLogProb, bestSeries) ==
    IF i > Len(results) THEN bestSeries
    ELSE IF Geq(results[i].logPosterior, maxLogProb)
         THEN ClassifyLoopLast(results, i + 1, results[i].logPosterior,
                               results[i].series)
         ELSE ClassifyLoopLast(results, i + 1, maxLogProb, bestSeries)

RECURSIVE ClassifyLoop(_, _, _, _)
\* the loop of classify: the best series index so far
ClassifyLoop(results, i, maxLogProb, bestSeries) ==
    IF i > Len(results) THEN bestSeries
    ELSE IF Greater(results[i].logPosterior, maxLogProb)
         THEN ClassifyLoop(results, i + 1, results[i].logPosterior,
                           results[i].series)
         ELSE ClassifyLoop(results, i + 1, maxLogProb, bestSeries)

\* BayesianClassifier.classify(point): the index of the series returned
\* (0 for seriesList[0] of an empty list, which is undefined)
Bayes_classify(c, point) ==
    LET results == Bayes_computeLogPosteriors(c, point)
    IN  ClassifyLoop(results, 1, NInf, IF Len(c.seriesList) >= 1 THEN 1 ELSE 0)

\* Math.log(p0) - Math.log(p1), with the branches for a density of 0
LogLikelihoodRatio(p0, p1) ==
    IF Greater(p0, Zero) /\ Greater(p1, Zero) THEN Sub(Log(p0), Log(p1))
    ELSE IF Greater(p0, Zero) THEN Inf
    ELSE IF Greater(p1, Zero) THEN NInf
    ELSE Zero

\* a faulty Bayes factor, for comparison: the plain quotient
UnivariateBayesFactorRaw(p0, p1) == Div(p0, p1)

\* p1 > 0 ? p0 / p1 : p0 > 0 ? Infinity : 1
UnivariateBayesFactor(p0, p1) ==
    IF Greater(p1, Zero) THEN Div(p0, p1)
    ELSE IF Greater(p0, Zero) THEN Inf ELSE One

\* the entry perDimension[dim] of BayesianClassifier
BayesEntry(logLikelihoodRatio, bayesFactor, z0, z1) ==
    [logLikelihoodRatio |-> logLikelihoodRatio,
     bayesFactor |-> bayesFactor,
     evidence |-> getEvidenceCategory(bayesFactor),
     zScores |-> <<z0, z1>>]

\* the body of the loop of computePerDimensionEvidence, from the statistics
BayesDimEvidenceAt(value, m0, s0, m1, s1) ==
    BayesEntry(
        LogLikelihoodRatio(gaussianPdf(value, m0, s0), gaussianPdf(value, m1, s1)),
        UnivariateBayesFactor(gaussianPdf(value, m0, s0),
                              gaussianPdf(value, m1, s1)),
        zScore(value, m0, s0), zScore(value, m1, s1))

\* the entry of one dimension in computePerDimensionEvidence
BayesDimEvidence(c, point, dim) ==
    BayesDimEvidenceAt(PointValue(point, dim),
        Series_mean(c.seriesList[1], dim), Series_stddev(c.seriesList[1], dim),
        Series_mean(c.seriesList[2], dim), Series_stddev(c.seriesList[2], dim))

\* BayesianClassifier.computePerDimensionEvidence(point) throws: the Error
\* "Per-dimension evidence requires exactly 2 series", or a TypeError out of
\* series.mean
Bayes_computePerDimensionEvidenceThrows(c, point) ==
    \/ Len(c.seriesList) # 2
    \/ \E i \in 1..Len(point) :
          \/ Series_meanThrows(c.seriesList[1], point[i].dim)
          \/ Series_meanThrows(c.seriesList[2], point[i].dim)

\* BayesianClassifier.computePerDimensionEvidence(point)
Bayes_computePerDimensionEvidence(c, point) ==
    [dim \in PointKeys(point) |-> BayesDimEvidence(c, point, dim)]

RECURSIVE SumExpLoop(_, _, _, _)
\* the log-sum-exp loop of classifyWithDetails
SumExpLoop(logPosteriors, i, maxLogP, sumExp) ==
    IF i > Len(logPosteriors) THEN sumExp
    ELSE IF Greater(logPosteriors[i].logPosterior, NInf)
         THEN SumExpLoop(logPosteriors, i + 1, maxLogP,
                  Add(sumExp, Exp(Sub(logPosteriors[i].logPosterior, maxLogP))))
         ELSE SumExpLoop(logPosteriors, i + 1, maxLogP, sumExp)

\* logSumExp = maxLogP + Math.log(sumExp)
LogSumExp(logPosteriors, maxLogP) ==
    Add(maxLogP, Log(SumExpLoop(logPosteriors, 1, maxLogP, Zero)))

\* the results array of BayesianClassifier.classifyWithDetails
BayesResults(logPosteriors, logSumExp) ==
    Array([i \in 1..Len(logPosteriors) |->
        [series |-> logPosteriors[i].series,
         label |-> logPosteriors[i].label,
         logPosterior |-> logPosteriors[i].logPosterior,
         posterior |->
            IF Greater(logPosteriors[i].logPosterior, NInf)
            THEN Exp(Sub(logPosteriors[i].logPosterior, logSumExp))
            ELSE Zero]])

RECURSIVE WinnerLoop(_, _, _)
\* "find winner": the index of the winning entry of results
WinnerLoop(results, i, winner) ==
    IF i > Len(results) THEN winner
    ELSE IF Greater(results[i].posterior, results[winner].posterior)
         THEN WinnerLoop(results, i + 1, i)
         ELSE WinnerLoop(results, i + 1, winner)

\* the finite value of Math.exp(logBf), else Infinity or 0 by the comparison
ClampBayesFactor(bayesFactor, positive) ==
    IF IsFinite(bayesFactor) THEN bayesFactor
    ELSE IF positive THEN Inf ELSE Zero

\* a faulty Bayes factor, for comparison: computed for 2 classes or more
Bayes_bayesFactorOfFirstTwo(c, logPosteriors) ==
    IF Len(c.seriesList) < 2 THEN One
    ELSE ClampBayesFactor(
            Exp(Sub(Sub(logPosteriors[1].logPosterior, Log(c.priors[1])),
                    Sub(logPosteriors[2].logPosterior, Log(c.priors[2])))),
            Greater(logPosteriors[1].logPosterior,
                    logPosteriors[2].logPosterior))

\* the overall Bayes factor of BayesianClassifier.classifyWithDetails
Bayes_bayesFactor(c, logPosteriors) ==
    IF Len(c.seriesList) # 2 THEN One
    ELSE ClampBayesFactor(
            Exp(Sub(Sub(logPosteriors[1].logPosterior, Log(c.priors[1])),
                    Sub(logPosteriors[2].logPosterior, Log(c.priors[2])))),
            Greater(logPosteriors[1].logPosterior,
                    logPosteriors[2].logPosterior))

\* the object classifyWithDetails returns; winner is the index of the winning
\* entry of results, 0 for results[0] of an empty array (undefined)
Bayes_details(results, bayesFactor, perDimension) ==
    [winner |-> IF Len(results) = 0 THEN 0 ELSE WinnerLoop(results, 1, 1),
     results |-> results,
     bayesFactor |-> bayesFactor,
     evidence |-> getEvidenceCategory(bayesFactor),
     perDimension |-> perDimension]

\* classifyWithDetails after computeLogPosteriors returned logPosteriors
Bayes_detailsFrom(c, point, logPosteriors) ==
    Bayes_details(
        BayesResults(logPosteriors,
            LogSumExp(logPosteriors,
                MathMax([i \in 1..Len(logPosteriors) |->
                            logPosteriors[i].logPosterior]))),
        Bayes_bayesFactor(c, logPosteriors),
        IF Len(c.seriesList) = 2
        THEN Bayes_computePerDimensionEvidence(c, point) ELSE <<>>)

\* BayesianClassifier.classifyWithDetails(point) throws
Bayes_classifyWithDetailsThrows(c, point) ==
    \/ Bayes_computeLogPosteriorsThrows(c, point)
    \/ /\ Len(c.seriesList) = 2
       /\ Bayes_computePerDimensionEvidenceThrows(c, point)

\* BayesianClassifier.classifyWithDetails(point)
Bayes_classifyWithDetails(c, point) ==
    Bayes_detailsFrom(c, point, Bayes_computeLogPosteriors(c, point))

----------------------------------------------------------------------------
(* class LDAClassifier.  A matrix is a sequence of rows of numbers.  The   *)
(* methods that take a point each compute the pooled covariance and its    *)
(* inverse anew; the values are the same every time, so the operators      *)
(* below take them as arguments.                                           *)

\* a faulty check, for comparison: only a list too short is refused
LDA_constructorThrowsBelow(seriesList) == Len(seriesList) < 2

\* new LDAClassifier(seriesList) throws: the list has not exactly 2 series
LDA_constructorThrows(seriesList) == Len(seriesList) # 2

\* new LDAClassifier(seriesList), for a list of exactly 2 series
NewLDAClassifier(seriesList) ==
    [kind |-> "lda",
     seriesList |-> seriesList,
     labels |-> Slice0(DEFAULT_LABELS, 2),
     priors |-> <<Half, Half>>,
     cache |-> <<>>]

\* dims[0], the string "undefined" as a property name when dims is empty
FirstDim(dims) == IF Len(dims) >= 1 THEN dims[1] ELSE "undefined"

\* LDAClassifier.computePooledCovariance(dims) throws (out of series.mean)
LDA_computePooledCovarianceThrows(c, dims) ==
    \E i \in 1..Len(dims) :
        \/ Series_meanThrows(c.seriesList[1], dims[i])
        \/ Series_meanThrows(c.seriesList[2], dims[i])

\* a faulty pool, for comparison: the classes are weighted by n0 and n1
PooledByN(n0, n1, cov0, cov1) ==
    Div(Add(Mul(Int2Num(n0), cov0), Mul(Int2Num(n1), cov1)),
        Int2Num(n0 + n1))

\* ((n0 - 1) * cov0 + (n1 - 1) * cov1) / (n - 2)
Pooled(n0, n1, cov0, cov1) ==
    Div(Add(Mul(Int2Num(n0 - 1), cov0), Mul(Int2Num(n1 - 1), cov1)),
        Int2Num(n0 + n1 - 2))

\* the matrix computePooledCovariance fills, for class sizes n0 and n1
PooledMatrix(series0, series1, dims, n0, n1) ==
    Array([i \in 1..Len(dims) |-> Array([j \in 1..Len(dims) |->
        Pooled(n0, n1, Series_covariance(series0, dims[i], dims[j]),
                       Series_covariance(series1, dims[i], dims[j]))])])

\* LDAClassifier.computePooledCovariance(dims)
LDA_computePooledCovariance(c, dims) ==
    PooledMatrix(c.seriesList[1], c.seriesList[2], dims,
        Series_valuesOf(c.seriesList[1], FirstDim(dims)).length,
        Series_valuesOf(c.seriesList[2], FirstDim(dims)).length)

\* 1e-12 = 1 / (EPSILON_ROOT * EPSILON_ROOT)
EPSILON_ROOT == 1000000

\* the largest numerator whose product with EPSILON_ROOT is a 32-bit integer
MaxScaled == 2147483647 \div EPSILON_ROOT

\* a < 1e-12, for a >= 0 (false for NaN)
LessThanEpsilon(a) ==
    CASE a.k = "ninf" -> TRUE
      [] a.k = "rat" ->
            \/ a.n <= 0
            \/ /\ a.n <= MaxScaled
               /\ a.n * EPSILON_ROOT <
                    (a.d \div EPSILON_ROOT)
                    + (IF a.d % EPSILON_ROOT = 0 THEN 0 ELSE 1)
      [] OTHER -> FALSE

\* a faulty pivot search, for comparison: it keeps the diagonal entry
NoPivot(aug, n, col, row, maxRow) == maxRow

RECURSIVE PivotRow(_, _, _, _, _)
\* "find pivot": the row of the largest |aug[row][col]| from row col on, the
\* first of them on ties
PivotRow(aug, n, col, row, maxRow) ==
    IF row > n THEN maxRow
    ELSE IF Greater(Abs(aug[row][col]), Abs(aug[maxRow][col]))
         THEN PivotRow(aug, n, col, row + 1, row)
         ELSE PivotRow(aug, n, col, row + 1, maxRow)

\* the value invertMatrix returns for a singular matrix
NullMatrix == [isNull |-> TRUE, rows |-> <<>>]

\* "swap rows"
SwapRows(aug, col, maxRow) ==
    [aug EXCEPT ![col] = aug[maxRow], ![maxRow] = aug[col]]

\* "scale pivot row"
ScaleRow(aug, n, col, pivot) ==
    [aug EXCEPT ![col] = Array([j \in 1..(2 * n) |-> Div(aug[col][j], pivot)])]

\* "eliminate column"
Eliminate(aug, n, col) ==
    Array([row \in 1..n |->
        IF row # col
        THEN Array([j \in 1..(2 * n) |->
                Sub(aug[row][j], Mul(aug[row][col], aug[col][j]))])
        ELSE aug[row]])

RECURSIVE InvertLoop(_, _, _)
RECURSIVE InvertStep(_, _, _)

\* the elimination loop of invertMatrix from column col on
InvertLoop(aug, n, col) ==
    IF col > n
    THEN [isNull |-> FALSE,
          rows |-> Array([i \in 1..n |-> Array([j \in 1..n |-> aug[i][n + j]])])]
    ELSE InvertStep(SwapRows(aug, col, PivotRow(aug, n, col, col + 1, col)),
                    n, col)

\* one column of the loop, after the pivot row was swapped in
InvertStep(aug, n, col) ==
    IF LessThanEpsilon(Abs(aug[col][col])) THEN NullMatrix
    ELSE InvertLoop(Eliminate(ScaleRow(aug, n, col, aug[col][col]), n, col),
                    n, col + 1)

\* LDAClassifier.invertMatrix(matrix): [isNull, rows]
invertMatrix(matrix) ==
    InvertLoop(Array([i \in 1..Len(matrix) |->
                   Array([j \in 1..(2 * Len(matrix)) |->
                       IF j <= Len(matrix) THEN matrix[i][j]
                       ELSE IF j - Len(matrix) = i THEN One ELSE Zero])]),
               Len(matrix), 1)

\* The row objects of a call of invertMatrix(matrix) are numbered: the rows
\* of the argument are the objects 1..n.  The state of the elimination is
\* [rows, objs]: the contents of the rows of aug and the objects they are.

\* a faulty augmented matrix, for comparison: it extends the rows of the
\* argument themselves
AugRowsShared(n) == Array([i \in 1..n |-> i])

\* "create augmented matrix": newRow = [...row] is a new object for each row
AugRowObjects(n) == Array([i \in 1..n |-> n + i])

\* aug as invertMatrix creates it
AugmentedObjects(matrix) ==
    [rows |-> Array([i \in 1..Len(matrix) |->
                  Array([j \in 1..(2 * Len(matrix)) |->
                      IF j <= Len(matrix) THEN matrix[i][j]
                      ELSE IF j - Len(matrix) = i THEN One ELSE Zero])]),
     objs |-> AugRowObjects(Len(matrix))]

\* "swap rows", of the objects with their contents
SwapObjects(st, col, maxRow) ==
    [rows |-> SwapRows(st.rows, col, maxRow),
     objs |-> SwapRows(st.objs, col, maxRow)]

RECURSIVE AugLoop(_, _, _)
RECURSIVE AugStep(_, _, _)

\* aug when invertMatrix returns, from column col on
AugLoop(st, n, col) ==
    IF col > n THEN st
    ELSE AugStep(SwapObjects(st, col,
                             PivotRow(st.rows, n, col, col + 1, col)),
                 n, col)

AugStep(st, n, col) ==
    IF LessThanEpsilon(Abs(st.rows[col][col])) THEN st
    ELSE AugLoop([st EXCEPT !.rows =
                     Eliminate(ScaleRow(st.rows, n, col, st.rows[col][col]),
                               n, col)],
                 n, col + 1)

\* the contents of the row object obj when invertMatrix returns with aug st
RowObject(matrix, st, obj) ==
    IF \E slot \in 1..Len(st.objs) : st.objs[slot] = obj
    THEN st.rows[CHOOSE slot \in 1..Len(st.objs) : st.objs[slot] = obj]
    ELSE matrix[obj]

\* the argument of invertMatrix(matrix) after the call
ArgumentAfter(matrix) ==
    Array([i \in 1..Len(matrix) |->
        RowObject(matrix, AugLoop(AugmentedObjects(matrix), Len(matrix), 1), i)])

\* matrix * vector
MatVec(m, v) ==
    Array([i \in 1..Len(v) |->
        SumSeq([j \in 1..Len(v) |-> Mul(m[i][j], v[j])], Zero)])

\* vector . vector
Dot(u, v) == SumSeq([i \in 1..Len(v) |-> Mul(u[i], v[i])], Zero)

\* the vector of the point's values in the order of dims
PointVector(point, dims) ==
    Array([i \in 1..Len(dims) |-> PointValue(point, dims[i])])

\* the vector of a series' means in the order of dims
MeanVector(series, dims) ==
    Array([i \in 1..Len(dims) |-> Series_mean(series, dims[i])])

\* score = x' invCov mu - 0.5 mu' invCov mu + log(prior)
ClassScore(x, mu, invCovMu, prior) ==
    Add(Sub(Dot(x, invCovMu), Mul(Half, Dot(mu, invCovMu))), Log(prior))

\* the score of one class, from its mean vector
ClassScoreAt(x, mu, invCov, prior) ==
    ClassScore(x, mu, MatVec(invCov, mu), prior)

\* LDAClassifier._computeScoresWithInverse(point, dims, invCov)
LDA_computeScoresWithInverse(c, point, dims, invCov) ==
    Array([cls \in 1..2 |->
        [series |-> cls, label |-> LabelAt(c.labels, cls),
         score |-> ClassScoreAt(PointVector(point, dims),
                                MeanVector(c.seriesList[cls], dims),
                                invCov, c.priors[cls])]])

\* a faulty fallback inverse, for comparison: it inverts the off-diagonal
\* entries as well
DiagInvFull(pooledCov) ==
    Array([i \in 1..Len(pooledCov) |-> Array([j \in 1..Len(pooledCov) |->
        IF Greater(pooledCov[i][j], Zero)
        THEN Div(One, pooledCov[i][j]) ELSE Zero])])

\* the diagonal fallback inverse of computeDiscriminantScores
DiagInv(pooledCov) ==
    Array([i \in 1..Len(pooledCov) |-> Array([j \in 1..Len(pooledCov) |->
        IF i = j /\ Greater(pooledCov[i][i], Zero)
        THEN Div(One, pooledCov[i][i]) ELSE Zero])])

\* computeDiscriminantScores after invertMatrix(pooledCov) returned invCov
ScoresGiven(c, point, pooledCov, invCov) ==
    LDA_computeScoresWithInverse(c, point, PointDims(point),
        IF invCov.isNull THEN DiagInv(pooledCov) ELSE invCov.rows)

\* computeDiscriminantScores after computePooledCovariance returned pooledCov
ScoresFrom(c, point, pooledCov) ==
    ScoresGiven(c, point, pooledCov, invertMatrix(pooledCov))

\* LDAClassifier.computeDiscriminantScores(point)
LDA_computeDiscriminantScores(c, point) ==
    ScoresFrom(c, point, LDA_computePooledCovariance(c, PointDims(point)))

\* the fallback of computeMahalanobisDistances: the Euclidean distance in
\* z-score space
ZDistance(series, x, dims) ==
    Sqrt(SumSeq([i \in 1..Len(dims) |->
            Square(zScore(x[i], Series_mean(series, dims[i]),
                                Series_stddev(series, dims[i])))], Zero))

\* diff' invCov diff
QuadraticForm(diff, invCov) ==
    SumSeq([e \in 1..(Len(diff) * Len(diff)) |->
              Mul(Mul(diff[((e - 1) \div Len(diff)) + 1],
                      invCov[((e - 1) \div Len(diff)) + 1]
                            [((e - 1) % Len(diff)) + 1]),
                  diff[((e - 1) % Len(diff)) + 1])], Zero)

\* x - mu
VecSub(x, mu) == Array([i \in 1..Len(x) |-> Sub(x[i], mu[i])])

\* computeMahalanobisDistances after invertMatrix returned invCov
MahalanobisGiven(c, point, invCov) ==
    IF invCov.isNull
    THEN Array([cls \in 1..Len(c.seriesList) |->
            [label |-> LabelAt(c.labels, cls),
             distance |-> ZDistance(c.seriesList[cls],
                              PointVector(point, PointDims(point)),
                              PointDims(point))]])
    ELSE Array([cls \in 1..2 |->
            [label |-> LabelAt(c.labels, cls),
             distance |->
                Sqrt(QuadraticForm(
                        VecSub(PointVector(point, PointDims(point)),
                               MeanVector(c.seriesList[cls], PointDims(point))),
                        invCov.rows))]])

\* the inverse every method computes first: invertMatrix of the pooled
\* covariance over the dimensions of the point
LDA_inverse(c, point) ==
    invertMatrix(LDA_computePooledCovariance(c, PointDims(point)))

\* LDAClassifier.computeMahalanobisDistances(point)
LDA_computeMahalanobisDistances(c, point) ==
    MahalanobisGiven(c, point, LDA_inverse(c, point))

\* the entry perDimension[dim] of LDAClassifier
LDAEntry(weight, contribution, bayesFactor, z0, z1) ==
    [weight |-> weight,
     contribution |-> contribution,
     bayesFactor |-> bayesFactor,
     evidence |-> getEvidenceCategory(bayesFactor),
     zScores |-> <<z0, z1>>]

\* the entry of the univariate fallback
FallbackEntry(k, bayesFactor, z0, z1) ==
    LDAEntry(Div(One, Int2Num(k)), Log(bayesFactor), bayesFactor, z0, z1)

\* a faulty entry, for comparison: the weight keeps the sign of w[i]
WeightedEntrySigned(k, wi, totalAbsWeight, value, m0, s0, m1, s1) ==
    LDAEntry(IF Greater(totalAbsWeight, Zero) THEN Div(wi, totalAbsWeight)
             ELSE Div(One, Int2Num(k)),
             Mul(wi, Sub(value, Div(Add(m0, m1), Int2Num(2)))),
             UnivariateBayesFactor(gaussianPdf(value, m0, s0),
                                   gaussianPdf(value, m1, s1)),
             zScore(value, m0, s0), zScore(value, m1, s1))

\* the entry of the LDA analysis, w being the weight vector
WeightedEntry(k, wi, totalAbsWeight, value, m0, s0, m1, s1) ==
    LDAEntry(IF Greater(totalAbsWeight, Zero) THEN Div(Abs(wi), totalAbsWeight)
             ELSE Div(One, Int2Num(k)),
             Mul(wi, Sub(value, Div(Add(m0, m1), Int2Num(2)))),
             UnivariateBayesFactor(gaussianPdf(value, m0, s0),
                                   gaussianPdf(value, m1, s1)),
             zScore(value, m0, s0), zScore(value, m1, s1))

\* w = invCov * (mu0 - mu1)
WeightVector(c, dims, invCov) ==
    MatVec(invCov, VecSub(MeanVector(c.seriesList[1], dims),
                          MeanVector(c.seriesList[2], dims)))

\* the loop body of the LDA analysis for dims[i]
WeightedEntryAt(c, point, dims, i, w, totalAbsWeight) ==
    WeightedEntry(Len(dims), w[i], totalAbsWeight, PointValue(point, dims[i]),
        Series_mean(c.seriesList[1], dims[i]),
        Series_stddev(c.seriesList[1], dims[i]),
        Series_mean(c.seriesList[2], dims[i]),
        Series_stddev(c.seriesList[2], dims[i]))

\* the loop body of the univariate fallback for dim
FallbackEntryAt(k, value, m0, s0, m1, s1) ==
    FallbackEntry(k,
        UnivariateBayesFactor(gaussianPdf(value, m0, s0),
                              gaussianPdf(value, m1, s1)),
        zScore(value, m0, s0), zScore(value, m1, s1))

\* the index of dim in dims
IndexOf(dims, dim) == CHOOSE i \in 1..Len(dims) : dims[i] = dim

\* the LDA analysis of computePerDimensionEvidence, given the weight vector
WeightedEvidence(c, point, dims, w) ==
    [dim \in PointKeys(point) |->
        WeightedEntryAt(c, point, dims, IndexOf(dims, dim), w,
            SumSeq([i \in 1..Len(dims) |-> Abs(w[i])], Zero))]

\* computePerDimensionEvidence after invertMatrix returned invCov
PerDimensionGiven(c, point, invCov) ==
    IF invCov.isNull
    THEN [dim \in PointKeys(point) |->
            FallbackEntryAt(Len(point), PointValue(point, dim),
                Series_mean(c.seriesList[1], dim),
                Series_stddev(c.seriesList[1], dim),
                Series_mean(c.seriesList[2], dim),
                Series_stddev(c.seriesList[2], dim))]
    ELSE WeightedEvidence(c, point, PointDims(point),
            WeightVector(c, PointDims(point), invCov.rows))

\* LDAClassifier.computePerDimensionEvidence(point)
LDA_computePerDimensionEvidence(c, point) ==
    PerDimensionGiven(c, point, LDA_inverse(c, point))

\* every method of LDAClassifier taking a point throws exactly when
\* computePooledCovariance, which each calls first, throws
LDA_Throws(c, point) ==
    LDA_computePooledCovarianceThrows(c, PointDims(point))

\* the results array of LDAClassifier.classifyWithDetails (softmax)
LDAResults(scores, maxScore) ==
    Array([i \in 1..2 |->
        [series |-> scores[i].series,
         label |-> scores[i].label,
         score |-> scores[i].score,
         posterior |->
            Div(Exp(Sub(scores[i].score, maxScore)),
                SumSeq([j \in 1..2 |-> Exp(Sub(scores[j].score, maxScore))],
                       Zero))]])

\* Math.exp(scoreDiff), else Infinity or 0 by the sign of scoreDiff
LDA_bayesFactor(scoreDiff) ==
    ClampBayesFactor(Exp(scoreDiff), Greater(scoreDiff, Zero))

\* the object LDAClassifier.classifyWithDetails returns; winner is the index
\* of the winning entry of results
LDA_details(results, bayesFactor, perDimension, mahalanobis) ==
    [winner |-> WinnerLoop(results, 1, 1),
     results |-> results,
     bayesFactor |-> bayesFactor,
     evidence |-> getEvidenceCategory(bayesFactor),
     perDimension |-> perDimension,
     mahalanobis |-> mahalanobis]

\* classifyWithDetails after computeDiscriminantScores returned scores
LDA_detailsFrom(scores, perDimension, mahalanobis) ==
    LDA_details(
        LDAResults(scores, MathMax([i \in 1..2 |-> scores[i].score])),
        LDA_bayesFactor(Sub(scores[1].score, scores[2].score)),
        perDimension, mahalanobis)

\* classifyWithDetails, given the pooled covariance and its inverse
LDA_detailsGiven(c, point, pooledCov, invCov) ==
    LDA_detailsFrom(ScoresGiven(c, point, pooledCov, invCov),
                    PerDimensionGiven(c, point, invCov),
                    MahalanobisGiven(c, point, invCov))

\* LDAClassifier.classifyWithDetails(point)
LDA_classifyWithDetails(c, point) ==
    LDA_detailsGiven(c, point,
        LDA_computePooledCovariance(c, PointDims(point)),
        LDA_inverse(c, point))

----------------------------------------------------------------------------
(* The memoisation a method call leaves in the Series objects.  A call is  *)
(* the sequence of the statistics it asks of its series, in program order; *)
(* each access fills the cache entries Series.mean / stddev / covariance   *)
(* fill, and the sequence stops at the access that throws.                 *)

MeanAccess(s, dim) == [s |-> s, stat |-> "mean", d1 |-> dim, d2 |-> dim]
StddevAccess(s, dim) == [s |-> s, stat |-> "stddev", d1 |-> dim, d2 |-> dim]
CovAccess(s, dim1, dim2) ==
    [s |-> s, stat |-> "covariance", d1 |-> dim1, d2 |-> dim2]

\* a faulty mean, for comparison: it consumes the array it sums
FillMeanConsuming(series, dim) ==
    [series EXCEPT
        !.stats.mean = (dim :> Series_mean(series, dim)) @@ @,
        !.values = [d \in DOMAIN @ |-> IF d = dim THEN <<>> ELSE @[d]]]

\* the Series after this.mean(dim) returned
FillMean(series, dim) ==
    IF dim \in DOMAIN series.stats.mean THEN series
    ELSE [series EXCEPT !.stats.mean = (dim :> Series_mean(series, dim)) @@ @]

\* a faulty stddev, for comparison: it memoises the mean alone
FillStddevForget(series, dim) == FillMean(series, dim)

\* the Series after this.stddev(dim) returned
FillStddev(series, dim) ==
    IF dim \in DOMAIN series.stats.stddev THEN series
    ELSE LET withMean == FillMean(series, dim)
         IN  [withMean EXCEPT !.stats.stddev =
                 (dim :> Series_stddev(withMean, dim)) @@ @]

\* the Series after this.covariance(dim1, dim2) returned
FillCovariance(series, dim1, dim2) ==
    IF PairKey(dim1, dim2) \in DOMAIN series.stats.covariance THEN series
    ELSE LET withMeans == FillMean(FillMean(series, dim1), dim2)
         IN  [withMeans EXCEPT !.stats.covariance =
                 (PairKey(dim1, dim2) :>
                     Series_covariance(withMeans, dim1, dim2)) @@ @]

\* the access throws on this Series; before it does, covariance has cached
\* the mean of dim1 when only dim2 is what throws
AccessThrows(series, a) ==
    CASE a.stat = "mean" -> Series_meanThrows(series, a.d1)
      [] a.stat = "stddev" ->
            a.d1 \notin DOMAIN series.stats.stddev
            /\ Series_meanThrows(series, a.d1)
      [] OTHER ->
            PairKey(a.d1, a.d2) \notin DOMAIN series.stats.covariance
            /\ (Series_meanThrows(series, a.d1)
                \/ Series_meanThrows(series, a.d2))

AccessEffect(series, a) ==
    IF AccessThrows(series, a)
    THEN IF a.stat = "covariance" /\ ~Series_meanThrows(series, a.d1)
         THEN FillMean(series, a.d1) ELSE series
    ELSE CASE a.stat = "mean" -> FillMean(series, a.d1)
           [] a.stat = "stddev" -> FillStddev(series, a.d1)
           [] OTHER -> FillCovariance(series, a.d1, a.d2)

RECURSIVE RunAccesses(_, _, _)
\* the series list after the accesses from the i-th on, up to the first throw
RunAccesses(seriesList, accesses, i) ==
    IF i > Len(accesses) THEN seriesList
    ELSE LET a == accesses[i]
             after == [seriesList EXCEPT ![a.s] = AccessEffect(@, a)]
         IN  IF AccessThrows(seriesList[a.s], a) THEN after
             ELSE RunAccesses(after, accesses, i + 1)

RECURSIVE Flatten(_)
Flatten(seqs) == IF seqs = <<>> THEN <<>> ELSE Head(seqs) \o Flatten(Tail(seqs))

RECURSIVE VisitedCount(_, _, _)
\* how many dimensions of the point the inner loop of computeLogPosteriors
\* reaches for one series: up to the first that throws or has density 0
VisitedCount(series, point, i) ==
    IF i > Len(point) THEN Len(point)
    ELSE IF Series_meanThrows(series, point[i].dim) THEN i
    ELSE IF Greater(gaussianPdf(Int2Num(point[i].value),
                                Series_mean(series, point[i].dim),
                                Series_stddev(series, point[i].dim)), Zero)
         THEN VisitedCount(series, point, i + 1)
         ELSE i

MeanStddev(s, dim) == <<MeanAccess(s, dim), StddevAccess(s, dim)>>

Accesses_computeLogPosteriors(c, point) ==
    Flatten([s \in 1..Len(c.seriesList) |->
        Flatten([i \in 1..VisitedCount(c.seriesList[s], point, 1) |->
            MeanStddev(s, point[i].dim)])])

Accesses_perDimension(c, point) ==
    Flatten([i \in 1..Len(point) |->
        MeanStddev(1, point[i].dim) \o MeanStddev(2, point[i].dim)])

Accesses_computePooledCovariance(dims) ==
    Flatten([e \in 1..(Len(dims) * Len(dims)) |->
        LET i == ((e - 1) \div Len(dims)) + 1
            j == ((e - 1) % Len(dims)) + 1
        IN  <<CovAccess(1, dims[i], dims[j]), CovAccess(2, dims[i], dims[j])>>])

Accesses_means(dims) ==
    Flatten([s \in 1..2 |-> [i \in 1..Len(dims) |-> MeanAccess(s, dims[i])]])

\* after computePooledCovariance threw nothing more is accessed
Accesses_computeDiscriminantScores(c, point) ==
    Accesses_computePooledCovariance(PointDims(point))
    \o (IF LDA_Throws(c, point) THEN <<>>
        ELSE Accesses_means(PointDims(point)))

Accesses_computeMahalanobisDistances(c, point) ==
    Accesses_computePooledCovariance(PointDims(point))
    \o (IF LDA_Throws(c, point) THEN <<>>
        ELSE IF LDA_inverse(c, point).isNull
        THEN Flatten([s \in 1..2 |-> Flatten([i \in 1..Len(point) |->
                 MeanStddev(s, point[i].dim)])])
        ELSE Accesses_means(PointDims(point)))

Accesses_LDA_computePerDimensionEvidence(c, point) ==
    Accesses_computePooledCovariance(PointDims(point))
    \o (IF LDA_Throws(c, point) THEN <<>>
        ELSE IF LDA_inverse(c, point).isNull THEN <<>>
        ELSE Accesses_means(PointDims(point)))
    \o Accesses_perDimension(c, point)

----------------------------------------------------------------------------
(* The methods of a Series called directly.  A call in progress is the     *)
(* record [s, runs, thrown]: the Series with what it memoised so far, how  *)
(* often the computation of each statistic ran, by key, and whether an     *)
(* exception is on its way out.                                            *)

\* a faulty correlation, for comparison: it divides whatever the spreads
Series_correlationUnguarded(s, dim1, dim2) ==
    IF PairKey(dim1, dim2) \in DOMAIN s.stats.correlation
    THEN s.stats.correlation[PairKey(dim1, dim2)]
    ELSE Div(Series_covariance(s, dim1, dim2),
             Mul(Series_stddev(s, dim1), Series_stddev(s, dim2)))

\* Series.correlation(dim1, dim2)
Series_correlation(s, dim1, dim2) ==
    IF PairKey(dim1, dim2) \in DOMAIN s.stats.correlation
    THEN s.stats.correlation[PairKey(dim1, dim2)]
    ELSE IF Greater(Series_stddev(s, dim1), Zero)
            /\ Greater(Series_stddev(s, dim2), Zero)
         THEN Div(Series_covariance(s, dim1, dim2),
                  Mul(Series_stddev(s, dim1), Series_stddev(s, dim2)))
         ELSE Zero

\* Series.pdf(dim): a function object closed over the mean m and the
\* standard deviation sd; id numbers the function objects of the Series in
\* the order of their creation
Series_pdf(s, dim) ==
    IF dim \in DOMAIN s.stats.pdf THEN s.stats.pdf[dim]
    ELSE [m |-> Series_mean(s, dim), sd |-> Series_stddev(s, dim),
          id |-> Cardinality(DOMAIN s.stats.pdf) + 1]

\* the function pdf returned, applied to x
ApplyPdf(f, x) == gaussianPdf(x, f.m, f.sd)

\* the Series after this.correlation(dim1, dim2) returned
FillCorrelation(series, dim1, dim2) ==
    IF PairKey(dim1, dim2) \in DOMAIN series.stats.correlation THEN series
    ELSE LET withParts ==
                 FillStddev(FillStddev(FillCovariance(series, dim1, dim2),
                                       dim1), dim2)
         IN  [withParts EXCEPT !.stats.correlation =
                 (PairKey(dim1, dim2) :>
                     Series_correlation(withParts, dim1, dim2)) @@ @]

\* the Series after this.pdf(dim) returned
FillPdf(series, dim) ==
    IF dim \in DOMAIN series.stats.pdf THEN series
    ELSE LET withParts == FillStddev(FillMean(series, dim), dim)
         IN  [withParts EXCEPT !.stats.pdf =
                 (dim :> Series_pdf(withParts, dim)) @@ @]

\* one more run of the computation of the statistic for the key
Bump(counts, stat, key) ==
    IF <<stat, key>> \in DOMAIN counts
    THEN [counts EXCEPT ![<<stat, key>>] = @ + 1]
    ELSE (<<stat, key>> :> 1) @@ counts

Started(s, counts) == [s |-> s, runs |-> counts, thrown |-> FALSE]

\* this.mean(dim): mean(dimValues) runs unless the mean is memoised, and
\* throws when dimValues is no array
DoMean(st, dim) ==
    IF st.thrown \/ dim \in DOMAIN st.s.stats.mean THEN st
    ELSE IF ReduceThrows(Series_valuesOf(st.s, dim))
         THEN [st EXCEPT !.runs = Bump(@, "mean", dim), !.thrown = TRUE]
         ELSE [st EXCEPT !.runs = Bump(@, "mean", dim),
                         !.s = FillMean(@, dim)]

\* this.stddev(dim)
DoStddev(st, dim) ==
    IF st.thrown \/ dim \in DOMAIN st.s.stats.stddev THEN st
    ELSE IF DoMean(st, dim).thrown THEN DoMean(st, dim)
         ELSE [DoMean(st, dim) EXCEPT !.runs = Bump(@, "stddev", dim),
                                      !.s = FillStddev(@, dim)]

\* this.covariance(dim1, dim2)
DoCovariance(st, dim1, dim2) ==
    IF st.thrown \/ PairKey(dim1, dim2) \in DOMAIN st.s.stats.covariance
    THEN st
    ELSE IF DoMean(DoMean(st, dim1), dim2).thrown
         THEN DoMean(DoMean(st, dim1), dim2)
         ELSE [DoMean(DoMean(st, dim1), dim2) EXCEPT
                  !.runs = Bump(@, "covariance", PairKey(dim1, dim2)),
                  !.s = FillCovariance(@, dim1, dim2)]

\* the covariance and the two standard deviations correlation asks for
CorrelationParts(st, dim1, dim2) ==
    DoStddev(DoStddev(DoCovariance(st, dim1, dim2), dim1), dim2)

\* this.correlation(dim1, dim2)
DoCorrelation(st, dim1, dim2) ==
    IF st.thrown \/ PairKey(dim1, dim2) \in DOMAIN st.s.stats.correlation
    THEN st
    ELSE IF CorrelationParts(st, dim1, dim2).thrown
         THEN CorrelationParts(st, dim1, dim2)
         ELSE [CorrelationParts(st, dim1, dim2) EXCEPT
                  !.runs = Bump(@, "correlation", PairKey(dim1, dim2)),
                  !.s = FillCorrelation(@, dim1, dim2)]

\* this.pdf(dim)
DoPdf(st, dim) ==
    IF st.thrown \/ dim \in DOMAIN st.s.stats.pdf THEN st
    ELSE IF DoStddev(DoMean(st, dim), dim).thrown
         THEN DoStddev(DoMean(st, dim), dim)
         ELSE [DoStddev(DoMean(st, dim), dim) EXCEPT
                  !.runs = Bump(@, "pdf", dim),
                  !.s = FillPdf(@, dim)]

----------------------------------------------------------------------------
(* The inputs of the model *)

\* the coordinates of a query point are 1..MaxPoint
MaxPoint == 2

\* the largest number of dimensions of a query point
MaxDims == 2

\* two perfectly correlated dimensions, means (1,1) and (3,3)
SeriesA == [x |-> <<0, 2>>, y |-> <<0, 2>>]
SeriesB == [x |-> <<2, 4>>, y |-> <<2, 4>>]
\* two uncorrelated dimensions, means (1,1) and (3,1)
SeriesU0 == [x |-> <<0, 2, 0, 2>>, y |-> <<0, 0, 2, 2>>]
SeriesU1 == [x |-> <<2, 4, 2, 4>>, y |-> <<0, 0, 2, 2>>]
\* two dimensions of covariance 1/2, means (1,2) and (2,1)
SeriesC0 == [x |-> <<0, 2, 0, 2, 0, 2, 0, 2>>, y |-> <<3, 1, 1, 3, 1, 3, 1, 3>>]
SeriesC1 == [x |-> <<1, 3, 1, 3, 1, 3, 1, 3>>, y |-> <<2, 0, 0, 2, 0, 2, 0, 2>>]
\* a dimension of zero variance, the other absent
SeriesZ == [x |-> <<1, 1>>]
SeriesZ0 == [x |-> <<0, 0>>]
\* single samples
SeriesS1 == [x |-> <<1>>, y |-> <<2>>]
SeriesS3 == [x |-> <<3>>, y |-> <<2>>]
\* an empty dimension
SeriesE == [x |-> <<>>, y |-> <<0, 2>>]
\* dimensions of unequal length
SeriesM == [x |-> <<0, 2>>, y |-> <<0, 0, 2, 2>>]

BayesSeriesLists ==
    { <<>>, <<SeriesA>>, <<SeriesA, SeriesB>>, <<SeriesZ, SeriesB>>,
      <<SeriesZ, SeriesZ>>, <<SeriesS1, SeriesE>>,
      <<SeriesA, SeriesZ, SeriesB>> }

LDASeriesLists ==
    { <<SeriesA, SeriesB>>, <<SeriesU0, SeriesU1>>, <<SeriesC0, SeriesC1>>,
      <<SeriesS1, SeriesS3>>, <<SeriesZ0, SeriesA>>, <<SeriesE, SeriesE>>,
      <<SeriesM, SeriesU1>> }

Objects(list) == [i \in 1..Len(list) |-> NewSeries(list[i])]

Classifiers ==
    {NewBayesianClassifier(Objects(l)) : l \in BayesSeriesLists}
    \cup {NewLDAClassifier(Objects(l)) : l \in LDASeriesLists}

\* the prior vectors handed to setPriors, which accepts any array of the
\* right length: positive probabilities summing to 1 (a prior of 0 puts
\* log(0) = -Infinity into every score of its class)
PriorVectors ==
    { <<One>>, <<Half, Half>>, <<Rat(1, 4), Rat(3, 4)>>,
      <<Half, Rat(1, 4), Rat(1, 4)>> }

\* the points over the dimension names in names: up to MaxDims entries of
\* distinct names, in either order
PointsOver(names) ==
    UNION {
        { p \in [1..len -> [dim : names, value : 1..MaxPoint]] :
            \A i, j \in 1..len : i # j => p[i].dim # p[j].dim }
        : len \in 0..MaxDims }

\* the names of the measurements of the data
DataNames == {"x", "y"}

----------------------------------------------------------------------------
\* the names of the dimensions a point may also carry: a name every
\* JavaScript object inherits
ProtoNames == {"x", "constructor"}

\* the largest magnitude of an entry of a matrix handed to invertMatrix
MaxEntry == 2

SquareMatrices(n, entries) == [1..n -> [1..n -> entries]]

\* the matrices handed to invertMatrix: the integer matrices of sizes 0 to 2,
\* and the 0/1 matrices of size 3
Matrices ==
    UNION {SquareMatrices(n, {Int2Num(e) : e \in (-MaxEntry)..MaxEntry}) :
              n \in 0..2}
    \cup SquareMatrices(3, {Zero, One})

\* the largest Bayes factor handed to getEvidenceCategory, and the
\* denominator of its fractions
MaxBf == 101
BfScale == 10

\* the values handed to getEvidenceCategory (the sign of a zero is not
\* modelled, so the reciprocal -0 of -Infinity is left out)
BayesFactors ==
    {Rat(n, BfScale) : n \in (-BfScale)..(MaxBf * BfScale)}
    \cup {Rat(BfScale, n) : n \in 1..(MaxBf * BfScale)}
    \cup {Inf, NaN}

----------------------------------------------------------------------------
VARIABLES
    classifier,  \* the classifier object: kind, seriesList, labels, priors
    point,       \* the query point of the classifier's methods
    matrix,      \* the argument of invertMatrix
    bf,          \* the argument of getEvidenceCategory
    call,        \* the last call: [op, thrown]
    ret,         \* what the last call returned
    series,      \* the Series object whose methods are called directly
    runs,        \* how often each statistic of series was computed, by key
    component,   \* the ClassificationComponent and the page around it
    plot,        \* the DensityPlot and the curves it drew last
    app          \* main.js: the preferences, the dataset loads, the events

vars == <<classifier, point, matrix, bf, call, ret, series, runs, component, plot, app>>

NoCall == [op |-> "new", thrown |-> FALSE]

\* no classifier and no Series was constructed
NoClassifier == [kind |-> "none"]
NoSeries == [kind |-> "none"]
NoComponent == [kind |-> "none"]
NoPlot == [kind |-> "none"]
NoApp == [kind |-> "none"]

\* a classifier was constructed and is asked about one point
InitWith(classifiers, points) ==
    /\ classifier \in classifiers
    /\ point \in points
    /\ matrix = <<>>
    /\ bf = One
    /\ call = NoCall
    /\ ret = <<>>
    /\ series = NoSeries
    /\ runs = <<>>
    /\ component = NoComponent
    /\ plot = NoPlot
    /\ app = NoApp

Init == InitWith(Classifiers, PointsOver(DataNames))

\* a method call: what it returns or that it throws, and the statistics it
\* leaves memoised in the series
Call(opName, throws, value, accesses) ==
    /\ call' = [op |-> opName, thrown |-> throws]
    /\ ret' = IF throws THEN <<>> ELSE value
    /\ classifier' =
          [classifier EXCEPT !.seriesList = RunAccesses(@, accesses, 1)]
    /\ UNCHANGED <<point, matrix, bf, series, runs, component, plot, app>>

\* a faulty setPriors, for comparison: it stores nothing
Bayes_setPriorsKeep(c, priors) == c

\* BayesianClassifier.setPriors(priors)
Bayes_setPriors(c, priors) == [c EXCEPT !.priors = priors]

\* LDAClassifier.setPriors(priors)
LDA_setPriors(c, priors) == [c EXCEPT !.priors = priors, !.cache = <<>>]

\* setPriors throws: the length of priors is not the number of classes
SetPriorsThrows(c, priors) == Len(priors) # Len(c.seriesList)

\* BayesianClassifier.setPriors / LDAClassifier.setPriors
SetPriors(priors) ==
    /\ classifier.kind \in {"bayes", "lda"}
    /\ call' = [op |-> "setPriors",
                thrown |-> SetPriorsThrows(classifier, priors)]
    /\ ret' = <<>>
    /\ classifier' =
          IF SetPriorsThrows(classifier, priors) THEN classifier
          ELSE IF classifier.kind = "bayes"
               THEN Bayes_setPriors(classifier, priors)
               ELSE LDA_setPriors(classifier, priors)
    /\ UNCHANGED <<point, matrix, bf, series, runs, component, plot, app>>

BayesComputeLogPosteriors ==
    /\ classifier.kind = "bayes"
    /\ Call("computeLogPosteriors",
            Bayes_computeLogPosteriorsThrows(classifier, point),
            Bayes_computeLogPosteriors(classifier, point),
            Accesses_computeLogPosteriors(classifier, point))

BayesClassify ==
    /\ classifier.kind = "bayes"
    /\ Call("classify",
            Bayes_computeLogPosteriorsThrows(classifier, point),
            Bayes_classify(classifier, point),
            Accesses_computeLogPosteriors(classifier, point))

BayesComputePerDimensionEvidence ==
    /\ classifier.kind = "bayes"
    /\ Call("computePerDimensionEvidence",
            Bayes_computePerDimensionEvidenceThrows(classifier, point),
            Bayes_computePerDimensionEvidence(classifier, point),
            IF Len(classifier.seriesList) # 2 THEN <<>>
            ELSE Accesses_perDimension(classifier, point))

BayesClassifyWithDetails ==
    /\ classifier.kind = "bayes"
    /\ Call("classifyWithDetails",
            Bayes_classifyWithDetailsThrows(classifier, point),
            Bayes_classifyWithDetails(classifier, point),
            Accesses_computeLogPosteriors(classifier, point)
            \o (IF Len(classifier.seriesList) = 2
                   /\ ~Bayes_computeLogPosteriorsThrows(classifier, point)
                THEN Accesses_perDimension(classifier, point) ELSE <<>>))

LDAComputeDiscriminantScores ==
    /\ classifier.kind = "lda"
    /\ Call("computeDiscriminantScores",
            LDA_Throws(classifier, point),
            LDA_computeDiscriminantScores(classifier, point),
            Accesses_computeDiscriminantScores(classifier, point))

LDAComputeMahalanobisDistances ==
    /\ classifier.kind = "lda"
    /\ Call("computeMahalanobisDistances",
            LDA_Throws(classifier, point),
            LDA_computeMahalanobisDistances(classifier, point),
            Accesses_computeMahalanobisDistances(classifier, point))

LDAComputePerDimensionEvidence ==
    /\ classifier.kind = "lda"
    /\ Call("computePerDimensionEvidence",
            LDA_Throws(classifier, point),
            LDA_computePerDimensionEvidence(classifier, point),
            Accesses_LDA_computePerDimensionEvidence(classifier, point))

LDAClassifyWithDetails ==
    /\ classifier.kind = "lda"
    /\ Call("classifyWithDetails",
            LDA_Throws(classifier, point),
            LDA_classifyWithDetails(classifier, point),
            Accesses_computeDiscriminantScores(classifier, point)
            \o Accesses_LDA_computePerDimensionEvidence(classifier, point)
            \o Accesses_computeMahalanobisDistances(classifier, point))

Next ==
    \/ \E priors \in PriorVectors : SetPriors(priors)
    \/ BayesComputeLogPosteriors
    \/ BayesClassify
    \/ BayesComputePerDimensionEvidence
    \/ BayesClassifyWithDetails
    \/ LDAComputeDiscriminantScores
    \/ LDAComputeMahalanobisDistances
    \/ LDAComputePerDimensionEvidence
    \/ LDAClassifyWithDetails

Spec == Init /\ [][Next]_vars

\* The same classifiers asked about points that may carry a dimension named
\* like a property every object inherits.
ProtoClassifiers ==
    {NewBayesianClassifier(Objects(l)) :
        l \in {<<SeriesA, SeriesB>>, <<SeriesZ, SeriesB>>, <<SeriesA>>}}
    \cup {NewLDAClassifier(Objects(l)) :
        l \in {<<SeriesA, SeriesB>>, <<SeriesU0, SeriesU1>>}}

InitProto == InitWith(ProtoClassifiers, PointsOver(ProtoNames))

SpecProto == InitProto /\ [][Next]_vars

\* two classes of unequal spread: means 5 and 7, standard deviations 1 and 2
SeriesV0 == [x |-> <<4, 6>>]
SeriesV1 == [x |-> <<5, 9>>]

\* the classifiers of Init, the LDAClassifier of the two classes of unequal
\* spread, and a BayesianClassifier whose second class has no spread
InitSpread ==
    InitWith(Classifiers
                \cup {NewLDAClassifier(Objects(<<SeriesV0, SeriesV1>>)),
                      NewBayesianClassifier(Objects(<<SeriesB, SeriesZ>>))},
             PointsOver(DataNames))

SpecSpread == InitSpread /\ [][Next]_vars

\* LDAClassifier.computePooledCovariance(dims), dims being the names of the
\* point in their order
LDAComputePooledCovariance ==
    /\ classifier.kind = "lda"
    /\ Call("computePooledCovariance",
            LDA_computePooledCovarianceThrows(classifier, PointDims(point)),
            LDA_computePooledCovariance(classifier, PointDims(point)),
            Accesses_computePooledCovariance(PointDims(point)))

NextPooled == LDAComputePooledCovariance \/ Next

SpecPooled == Init /\ [][NextPooled]_vars

\* The construction of the classifiers, from lists of 0 to 3 series and
\* without labels, followed by calls of their methods.
ConstructLists ==
    { <<>>, <<SeriesA>>, <<SeriesA, SeriesB>>, <<SeriesZ, SeriesB>>,
      <<SeriesU0, SeriesU1>>, <<SeriesA, SeriesZ, SeriesB>> }

InitNew ==
    /\ classifier = NoClassifier
    /\ point \in PointsOver(DataNames)
    /\ matrix = <<>>
    /\ bf = One
    /\ call = NoCall
    /\ ret = <<>>
    /\ series = NoSeries
    /\ runs = <<>>
    /\ component = NoComponent
    /\ plot = NoPlot
    /\ app = NoApp

\* new BayesianClassifier(seriesList)
ConstructBayes(list) ==
    /\ classifier = NoClassifier
    /\ call' = [op |-> "new BayesianClassifier", thrown |-> FALSE]
    /\ ret' = <<>>
    /\ classifier' = NewBayesianClassifier(Objects(list))
    /\ UNCHANGED <<point, matrix, bf, series, runs, component, plot, app>>

\* new LDAClassifier(seriesList): the exception leaves no object behind
ConstructLDA(list) ==
    /\ classifier = NoClassifier
    /\ call' = [op |-> "new LDAClassifier",
                thrown |-> LDA_constructorThrows(Objects(list))]
    /\ ret' = <<>>
    /\ classifier' = IF LDA_constructorThrows(Objects(list)) THEN NoClassifier
                     ELSE NewLDAClassifier(Objects(list))
    /\ UNCHANGED <<point, matrix, bf, series, runs, component, plot, app>>

NextNew ==
    \/ \E list \in ConstructLists : ConstructBayes(list)
    \/ \E list \in ConstructLists : ConstructLDA(list)
    \/ Next

SpecNew == InitNew /\ [][NextNew]_vars

\* LDAClassifier.invertMatrix(matrix), a method that reads no field
InitInvert ==
    /\ classifier = NewLDAClassifier(Objects(<<SeriesA, SeriesB>>))
    /\ point = <<>>
    /\ matrix \in Matrices
    /\ bf = One
    /\ call = NoCall
    /\ ret = <<>>
    /\ series = NoSeries
    /\ runs = <<>>
    /\ component = NoComponent
    /\ plot = NoPlot
    /\ app = NoApp

InvertMatrix ==
    /\ call' = [op |-> "invertMatrix", thrown |-> FALSE]
    /\ ret' = invertMatrix(matrix)
    /\ matrix' = ArgumentAfter(matrix)
    /\ UNCHANGED <<classifier, point, bf, series, runs, component, plot, app>>

SpecInvert == InitInvert /\ [][InvertMatrix]_vars

\* getEvidenceCategory(bf), a function of its argument
InitEvidence ==
    /\ classifier = NewBayesianClassifier(<<>>)
    /\ point = <<>>
    /\ matrix = <<>>
    /\ bf \in BayesFactors
    /\ call = NoCall
    /\ ret = <<>>
    /\ series = NoSeries
    /\ runs = <<>>
    /\ component = NoComponent
    /\ plot = NoPlot
    /\ app = NoApp

GetEvidenceCategory ==
    /\ call' = [op |-> "getEvidenceCategory", thrown |-> FALSE]
    /\ ret' = getEvidenceCategory(bf)
    /\ UNCHANGED <<classifier, point, matrix, bf, series, runs, component, plot, app>>

SpecEvidence == InitEvidence /\ [][GetEvidenceCategory]_vars

----------------------------------------------------------------------------
(* A Series whose methods are called directly *)

\* a dimension present with equal spread, one of zero spread
SeriesZY == [x |-> <<1, 1>>, y |-> <<0, 2>>]
\* two dimensions of correlation -1
SeriesN == [x |-> <<0, 2>>, y |-> <<2, 0>>]

SeriesValues == {SeriesN, SeriesC0, SeriesZ, SeriesZY, SeriesE, SeriesM}

\* the dimension names asked for; SeriesZ has no dimension y
SeriesNames == {"x", "y"}

\* the computation of one statistic for one key is followed up to its
\* MaxRuns-th run
MaxRuns == 2

InitSeriesWith(values) ==
    /\ classifier = NoClassifier
    /\ point = <<>>
    /\ matrix = <<>>
    /\ bf = One
    /\ call = NoCall
    /\ ret = <<>>
    /\ series \in {NewSeries(v) : v \in values}
    /\ runs = <<>>
    /\ component = NoComponent
    /\ plot = NoPlot
    /\ app = NoApp

InitSeries == InitSeriesWith(SeriesValues)

\* a method of series was called with args and left the call as st
SeriesCall(opName, args, st, value) ==
    /\ \A key \in DOMAIN st.runs : st.runs[key] <= MaxRuns
    /\ call' = [op |-> opName, thrown |-> st.thrown, args |-> args]
    /\ ret' = IF st.thrown THEN <<>> ELSE value
    /\ series' = st.s
    /\ runs' = st.runs
    /\ UNCHANGED <<classifier, point, matrix, bf, component, plot, app>>

SeriesDimensions ==
    /\ series # NoSeries
    /\ SeriesCall("dimensions", <<>>, Started(series, runs),
                  Series_dimensions(series))

SeriesValuesOf(dim) ==
    /\ series # NoSeries
    /\ SeriesCall("valuesOf", <<dim>>, Started(series, runs),
                  Series_valuesOf(series, dim))

SeriesMean(dim) ==
    /\ series # NoSeries
    /\ SeriesCall("mean", <<dim>>, DoMean(Started(series, runs), dim),
                  Series_mean(DoMean(Started(series, runs), dim).s, dim))

SeriesStddev(dim) ==
    /\ series # NoSeries
    /\ SeriesCall("stddev", <<dim>>, DoStddev(Started(series, runs), dim),
                  Series_stddev(DoStddev(Started(series, runs), dim).s, dim))

SeriesCovariance(dim1, dim2) ==
    /\ series # NoSeries
    /\ SeriesCall("covariance", <<dim1, dim2>>,
                  DoCovariance(Started(series, runs), dim1, dim2),
                  Series_covariance(
                      DoCovariance(Started(series, runs), dim1, dim2).s,
                      dim1, dim2))

SeriesCorrelation(dim1, dim2) ==
    /\ series # NoSeries
    /\ SeriesCall("correlation", <<dim1, dim2>>,
                  DoCorrelation(Started(series, runs), dim1, dim2),
                  Series_correlation(
                      DoCorrelation(Started(series, runs), dim1, dim2).s,
                      dim1, dim2))

SeriesPdf(dim) ==
    /\ series # NoSeries
    /\ SeriesCall("pdf", <<dim>>, DoPdf(Started(series, runs), dim),
                  Series_pdf(DoPdf(Started(series, runs), dim).s, dim))

\* a call of the function an earlier pdf(dim) returned
SeriesPdfApply(dim, x) ==
    /\ series # NoSeries
    /\ dim \in DOMAIN series.stats.pdf
    /\ SeriesCall("pdf()", <<dim, x>>, Started(series, runs),
                  ApplyPdf(series.stats.pdf[dim], Int2Num(x)))

NextSeriesOver(names) ==
    \/ SeriesDimensions
    \/ \E dim \in names : SeriesValuesOf(dim)
    \/ \E dim \in names : SeriesMean(dim)
    \/ \E dim \in names : SeriesStddev(dim)
    \/ \E dim1, dim2 \in names : SeriesCovariance(dim1, dim2)
    \/ \E dim1, dim2 \in names : SeriesCorrelation(dim1, dim2)
    \/ \E dim \in names : SeriesPdf(dim)
    \/ \E dim \in names, x \in 0..MaxPoint : SeriesPdfApply(dim, x)

NextSeries == NextSeriesOver(SeriesNames)

SpecSeries == InitSeries /\ [][NextSeries]_vars

\* A Series whose dimension names contain commas: the pairs ("a", "b,c") and
\* ("a,b", "c") have the one key "a,b,c"
SeriesK ==
    ("a" :> <<0, 2>>) @@ ("b,c" :> <<0, 2>>) @@ ("a,b" :> <<0, 2>>)
    @@ ("c" :> <<2, 0>>)
SeriesK2 ==
    ("a" :> <<0, 2, 0, 2>>) @@ ("b,c" :> <<0, 2, 0, 2>>)
    @@ ("a,b" :> <<0, 0, 2, 2>>) @@ ("c" :> <<0, 2, 0, 2>>)

CommaPairs ==
    { <<"a", "b,c">>, <<"a,b", "c">>, <<"b,c", "a">>, <<"c", "a,b">>,
      <<"a", "c">>, <<"c", "a">> }

InitSeriesComma == InitSeriesWith({SeriesK, SeriesK2})

NextSeriesComma ==
    \/ \E pair \in CommaPairs : SeriesCovariance(pair[1], pair[2])
    \/ \E pair \in CommaPairs : SeriesCorrelation(pair[1], pair[2])

SpecSeriesComma == InitSeriesComma /\ [][NextSeriesComma]_vars

\* The same methods asked for a dimension of the data and for one named like
\* a property every object inherits.
SeriesProtoNames == {"x", "constructor"}

\* one dimension, empty
SeriesX0 == [x |-> <<>>]

InitSeriesProto == InitSeriesWith({SeriesX0, SeriesZ})

NextSeriesProto == NextSeriesOver(SeriesProtoNames)

SpecSeriesProto == InitSeriesProto /\ [][NextSeriesProto]_vars

\* Either a classifier and the methods called on it, or a Series and the
\* methods called on it.
FrameClassifiers ==
    {NewBayesianClassifier(Objects(<<SeriesA, SeriesB>>)),
     NewLDAClassifier(Objects(<<SeriesA, SeriesB>>)),
     NewLDAClassifier(Objects(<<SeriesU0, SeriesU1>>))}

InitFrame ==
    \/ InitWith(FrameClassifiers, PointsOver(DataNames))
    \/ InitSeriesWith({SeriesM})

NextFrame == Next \/ NextSeries

SpecFrame == InitFrame /\ [][NextFrame]_vars

----------------------------------------------------------------------------
(* class ClassificationComponent, with the page around it.  component is   *)
(* the record of its fields: dataset, currentUnitSystem, currentClassifier *)
(* and measurementCards; shown, which of the result elements are           *)
(* displayed; preferencesUnit, the unit system of the page's preferences;  *)
(* classifyCalled, whether classify() ever ran; and log, the calls of      *)
(* classify() the last event handler made: whether the call found a        *)
(* dataset and a card with a measurement and a number, the classifier it   *)
(* constructed and what it displayed.                                      *)
(* A dataset is the sequence of the ids of its measurements.  A card is    *)
(* [default, checked, measurementId, value]: the default of its dropdown,  *)
(* the value of the checked radio ("" when none is), cardData.measurementId *)
(* ("" for null) and input.value.  The disabled flags syncDropdown-        *)
(* DisabledStates sets are functions of the cards (RadioDisabled,          *)
(* AddButtonDisabled): every handler that changes a selection ends in it.  *)
(* The classifier a call constructs always returns.                        *)

Datasets == { <<"stature", "weight">>, <<"weight">>, <<>> }

NoDataset == [loaded |-> FALSE, measurements |-> <<>>]
LoadedDataset(ids) == [loaded |-> TRUE, measurements |-> ids]

MeasurementIds(dataset) ==
    {dataset.measurements[i] : i \in 1..Len(dataset.measurements)}

UnitSystems == {"metric", "imperial"}

\* measurement.unit.forSystem[unit].conversionFactor, of every measurement
ConversionFactor(unit) == IF unit = "metric" THEN One ELSE Int2Num(2)

\* input.value of an empty number input: the empty string
Blank == [k |-> "blank", n |-> 0, d |-> 1]

\* what the user types into a number input
InputValues == {Blank, One}

parseFloat(text) == IF text = Blank THEN NaN ELSE text

\* the result elements the markup of the page displays
Displays ==
    [text : BOOLEAN, summary : BOOLEAN, details : BOOLEAN, work : BOOLEAN]

\* new ClassificationComponent(element)
NewComponent(markup, unit) ==
    [dataset |-> NoDataset,
     currentUnitSystem |-> "metric",
     currentClassifier |-> "lda",
     measurementCards |-> <<>>,
     shown |-> markup,
     preferencesUnit |-> unit,
     classifyCalled |-> FALSE,
     log |-> <<>>]

showNoResult(c) ==
    [c EXCEPT !.shown = [text |-> TRUE, summary |-> FALSE,
                         details |-> FALSE, work |-> FALSE]]

showResult(c) ==
    [c EXCEPT !.shown = [text |-> FALSE, summary |-> TRUE,
                         details |-> TRUE, work |-> TRUE]]

\* the card contributes a dimension to the point of classify()
Scorable(card) == card.checked # "" /\ ~IsNaN(parseFloat(card.value))

\* measurementIds, the keys of the point
PointOfCards(cards) ==
    {cards[i].checked : i \in {j \in 1..Len(cards) : Scorable(cards[j])}}

\* some card has a checked measurement and a number in its input
HasValuedCard(cards) ==
    \E i \in 1..Len(cards) : cards[i].checked # "" /\ cards[i].value # Blank

\* what a call of classify() did, added to the log; before is the component
\* the call found
Logged(before, after, built) ==
    [after EXCEPT
        !.classifyCalled = TRUE,
        !.log = Append(@, [loaded |-> before.dataset.loaded,
                           valued |-> HasValuedCard(before.measurementCards),
                           built |-> built,
                           shown |-> after.shown])]

\* a faulty classify, for comparison: it classifies the empty point too
Component_classifyAnyPoint(c) ==
    IF ~c.dataset.loaded THEN Logged(c, showNoResult(c), "none")
    ELSE IF ~(PointOfCards(c.measurementCards)
                \subseteq MeasurementIds(c.dataset))
    THEN Logged(c, showNoResult(c), "none")
    ELSE Logged(c, showResult(c),
                IF c.currentClassifier = "naive-bayes"
                THEN "BayesianClassifier" ELSE "LDAClassifier")

\* ClassificationComponent.classify(); buildSeriesForGender returns null
\* for a measurement the dataset does not have
Component_classify(c) ==
    IF ~c.dataset.loaded THEN Logged(c, showNoResult(c), "none")
    ELSE IF PointOfCards(c.measurementCards) = {}
    THEN Logged(c, showNoResult(c), "none")
    ELSE IF ~(PointOfCards(c.measurementCards)
                \subseteq MeasurementIds(c.dataset))
    THEN Logged(c, showNoResult(c), "none")
    ELSE Logged(c, showResult(c),
                IF c.currentClassifier = "naive-bayes"
                THEN "BayesianClassifier" ELSE "LDAClassifier")

\* the radio MeasurementDropdownComponent.update(dataset) leaves checked
SelectedValue(card, dataset) ==
    IF card.checked # "" /\ card.checked \in MeasurementIds(dataset)
    THEN card.checked
    ELSE IF card.default \in MeasurementIds(dataset) THEN card.default
    ELSE IF Len(dataset.measurements) > 0 THEN dataset.measurements[1]
    ELSE ""

\* MeasurementDropdownComponent.update(dataset), on the card
Dropdown_update(card, dataset) ==
    [card EXCEPT !.checked = SelectedValue(card, dataset)]

\* ClassificationComponent.updateCardUnit(cardData), for the i-th card
updateCardUnit(c, i) ==
    IF ~c.dataset.loaded THEN c
    ELSE [c EXCEPT !.measurementCards[i].measurementId =
                       c.measurementCards[i].checked]

\* the listener of "measurement-change" on the dropdown of the i-th card
OnMeasurementChange(c, i) ==
    Component_classify(
        [updateCardUnit(c, i) EXCEPT !.measurementCards[i].value = Blank])

getSelectedMeasurementIds(c) ==
    {c.measurementCards[i].measurementId :
        i \in 1..Len(c.measurementCards)} \ {""}

\* the indexes of the measurements no card has selected
AvailableIndexes(c) ==
    {i \in 1..Len(c.dataset.measurements) :
        c.dataset.measurements[i] \notin getSelectedMeasurementIds(c)}

\* ClassificationComponent.getNextAvailableMeasurementId(), "" for null
getNextAvailableMeasurementId(c) ==
    IF ~c.dataset.loaded \/ AvailableIndexes(c) = {} THEN ""
    ELSE c.dataset.measurements[
             CHOOSE i \in AvailableIndexes(c) :
                 \A j \in AvailableIndexes(c) : i <= j]

NewCard(measurementToSelect) ==
    [default |-> measurementToSelect, checked |-> "",
     measurementId |-> "", value |-> Blank]

\* addCard after the card was pushed as the i-th: its dropdown is filled
\* before the listener of "measurement-change" is added
AfterPush(c, i) ==
    IF ~c.dataset.loaded THEN c
    ELSE updateCardUnit(
             [c EXCEPT !.measurementCards[i] = Dropdown_update(@, c.dataset)],
             i)

AddCardSelecting(c, measurementToSelect) ==
    IF measurementToSelect = "" THEN c
    ELSE AfterPush(
             [c EXCEPT !.measurementCards =
                           Append(@, NewCard(measurementToSelect))],
             Len(c.measurementCards) + 1)

\* ClassificationComponent.addCard(defaultMeasurement), "" for undefined
Component_addCard(c, defaultMeasurement) ==
    AddCardSelecting(c, IF defaultMeasurement # "" THEN defaultMeasurement
                        ELSE getNextAvailableMeasurementId(c))

\* update() after the dropdown of the i-th card was filled: the dropdown
\* has dispatched "measurement-change" if a radio is checked
AfterDropdownUpdate(c, i) ==
    updateCardUnit(IF c.measurementCards[i].checked # ""
                   THEN OnMeasurementChange(c, i) ELSE c, i)

RECURSIVE UpdateCards(_, _)
\* the loop of update() over the cards, from the i-th on
UpdateCards(c, i) ==
    IF i > Len(c.measurementCards) THEN c
    ELSE UpdateCards(
             AfterDropdownUpdate(
                 [c EXCEPT !.measurementCards[i] =
                               Dropdown_update(@, c.dataset)], i),
             i + 1)

AddInitialCard(c) ==
    IF Len(c.measurementCards) = 0 THEN Component_addCard(c, "stature") ELSE c

\* ClassificationComponent.update(dataset, unitSystem)
Component_update(c, dataset, unitSystem) ==
    Component_classify(AddInitialCard(UpdateCards(
        [c EXCEPT !.dataset = dataset, !.currentUnitSystem = unitSystem], 1)))

\* the card after onUnitSystemChanged converted its value
ConvertedCard(card, unitSystem, oldUnitSystem) ==
    IF card.checked = "" \/ IsNaN(parseFloat(card.value)) THEN card
    ELSE [card EXCEPT !.value =
             Mul(parseFloat(card.value),
                 Div(ConversionFactor(unitSystem),
                     ConversionFactor(oldUnitSystem)))]

\* ClassificationComponent.onUnitSystemChanged(event)
Component_onUnitSystemChanged(c, unitSystem, oldUnitSystem) ==
    Component_classify(
        [c EXCEPT
            !.currentUnitSystem = unitSystem,
            !.measurementCards =
                IF ~c.dataset.loaded THEN @
                ELSE [i \in 1..Len(@) |->
                         ConvertedCard(@[i], unitSystem, oldUnitSystem)]])

\* the cards but the i-th
WithoutCard(cards, i) ==
    [j \in 1..(Len(cards) - 1) |-> IF j < i THEN cards[j] ELSE cards[j + 1]]

\* ClassificationComponent.removeCard(cardData), for the i-th card
Component_removeCard(c, i) ==
    Component_classify([c EXCEPT !.measurementCards = WithoutCard(@, i)])

\* the radios of the i-th card syncDropdownDisabledStates has disabled
RadioDisabled(c, i) ==
    getSelectedMeasurementIds(c) \ {c.measurementCards[i].measurementId}

AddButtonDisabled(c) ==
    /\ c.dataset.loaded
    /\ Cardinality(getSelectedMeasurementIds(c))
          >= Len(c.dataset.measurements)

\* the page is followed up to MaxCards cards (a dataset with fewer
\* measurements leaves several cards on one measurement, and the button
\* enabled again under the next dataset)
MaxCards == 2

InitComponent ==
    /\ classifier = NoClassifier
    /\ point = <<>>
    /\ matrix = <<>>
    /\ bf = One
    /\ call = NoCall
    /\ ret = <<>>
    /\ series = NoSeries
    /\ runs = <<>>
    /\ component \in {NewComponent(markup, unit) :
                         markup \in Displays, unit \in UnitSystems}
    /\ plot = NoPlot
    /\ app = NoApp

\* an event handler ran and left the component as after
Handled(opName, after) ==
    /\ call' = [op |-> opName, thrown |-> FALSE]
    /\ ret' = <<>>
    /\ component' = after
    /\ UNCHANGED <<classifier, point, matrix, bf, series, runs, plot, app>>

\* the component as a handler finds it
Handling == [component EXCEPT !.log = <<>>]

\* the page loaded a dataset and dispatched "dataset-changed"
DatasetChanged(ids) ==
    /\ ids \in Datasets
    /\ Handled("onDatasetChanged",
               Component_update(Handling, LoadedDataset(ids),
                                component.preferencesUnit))

\* the user chose the other unit system: "unit-system-changed"
UnitSystemChanged(unitSystem) ==
    /\ unitSystem # component.preferencesUnit
    /\ Handled("onUnitSystemChanged",
               Component_onUnitSystemChanged(
                   [Handling EXCEPT !.preferencesUnit = unitSystem],
                   unitSystem, component.preferencesUnit))

\* the user chose the other classifier
ClassifierChanged(name) ==
    /\ name # component.currentClassifier
    /\ Handled("classifierChange",
               Component_classify(
                   [Handling EXCEPT !.currentClassifier = name]))

\* a click on the button that adds a card
AddCardClicked ==
    /\ ~AddButtonDisabled(component)
    /\ Len(component.measurementCards) < MaxCards
    /\ Handled("addCard", Component_addCard(Handling, ""))

\* a click on the remove button of the i-th card
RemoveCardClicked(i) ==
    /\ i \in 1..Len(component.measurementCards)
    /\ Handled("removeCard", Component_removeCard(Handling, i))

\* the user checked another radio of the dropdown of the i-th card
MeasurementChosen(i, id) ==
    /\ i \in 1..Len(component.measurementCards)
    /\ id \in MeasurementIds(component.dataset)
    /\ id \notin RadioDisabled(component, i)
    /\ id # component.measurementCards[i].checked
    /\ Handled("measurement-change",
               OnMeasurementChange(
                   [Handling EXCEPT !.measurementCards[i].checked = id], i))

\* the user edited the number input of the i-th card
ValueInput(i, text) ==
    /\ i \in 1..Len(component.measurementCards)
    /\ text # component.measurementCards[i].value
    /\ Handled("input",
               Component_classify(
                   [Handling EXCEPT !.measurementCards[i].value = text]))

CardIndexes == 1..MaxCards

NextComponent ==
    \/ \E ids \in Datasets : DatasetChanged(ids)
    \/ \E unitSystem \in UnitSystems : UnitSystemChanged(unitSystem)
    \/ \E name \in {"lda", "naive-bayes"} : ClassifierChanged(name)
    \/ AddCardClicked
    \/ \E i \in CardIndexes : RemoveCardClicked(i)
    \/ \E i \in CardIndexes, id \in {"stature", "weight"} :
          MeasurementChosen(i, id)
    \/ \E i \in CardIndexes, text \in InputValues : ValueInput(i, text)

SpecComponent == InitComponent /\ [][NextComponent]_vars

----------------------------------------------------------------------------
(* class DensityPlot (assets/scripts/plots/density-plot.js).  plot is the  *)
(* record [series, curves, maxDensity]: the Series objects of the plot,    *)
(* the points [x, y] drawDensityCurves sampled for each of them, and the   *)
(* largest density, to which the curves are scaled.  The plots of the      *)
(* model show the dimension "x" of one or two samples.                     *)

DensityData == {<<0, 2>>, <<0, 0, 2, 2>>, <<0, 4>>, <<1, 3>>, <<2, 4>>, <<1, 1>>}

DensitySeries == {NewSeries([x |-> a]) : a \in DensityData}

DensityPlots ==
    {<<s>> : s \in DensitySeries}
    \cup {<<s, t>> : s \in DensitySeries, t \in DensitySeries}

\* the values of sampleCount
SampleCounts == {2, 3, 5}

NewDensityPlot(seriesList) ==
    [kind |-> "density", series |-> seriesList, curves |-> <<>>,
     maxDensity |-> Zero]

\* this.series.flatMap((s) => s.valuesOf("x")), as a set
FlatX(seriesList) ==
    UNION {{Series_valuesOf(seriesList[i], "x").items[j] :
               j \in 1..Series_valuesOf(seriesList[i], "x").length} :
              i \in 1..Len(seriesList)}

MinInt(xs) == CHOOSE a \in xs : \A b \in xs : a <= b
MaxInt(xs) == CHOOSE a \in xs : \A b \in xs : a >= b

\* DensityPlot.calculateBounds()
calculateBounds(p) ==
    [minX |-> MinInt(FlatX(p.series)), maxX |-> MaxInt(FlatX(p.series))]

\* x = bounds.minX + t * (bounds.maxX - bounds.minX), t = i / (sampleCount - 1)
SamplePoint(bounds, i, sampleCount) ==
    Add(Int2Num(bounds.minX),
        Mul(Div(Int2Num(i), Int2Num(sampleCount - 1)),
            Int2Num(bounds.maxX - bounds.minX)))

\* the points of one series: y = pdf(x), pdf = s.pdf("x")
CurveOf(s, bounds, sampleCount) ==
    Array([j \in 1..sampleCount |->
              [x |-> SamplePoint(bounds, j - 1, sampleCount),
               y |-> ApplyPdf(Series_pdf(s, "x"),
                              SamplePoint(bounds, j - 1, sampleCount))]])

CurvesOf(seriesList, bounds, sampleCount) ==
    Array([i \in 1..Len(seriesList) |->
              CurveOf(seriesList[i], bounds, sampleCount)])

\* curves.flatMap((c) => c.map((p) => p.y))
CurveDensities(curves) ==
    Array([n \in 1..(Len(curves) * Len(curves[1])) |->
              curves[((n - 1) \div Len(curves[1])) + 1]
                    [((n - 1) % Len(curves[1])) + 1].y])

\* DensityPlot.drawDensityCurves(ctx, width, height, bounds, sampleCount):
\* s.pdf("x") memoises the mean, the standard deviation and the function
DensityPlot_drawDensityCurves(p, bounds, sampleCount) ==
    [p EXCEPT
        !.series = Array([i \in 1..Len(p.series) |-> FillPdf(p.series[i], "x")]),
        !.curves = CurvesOf(p.series, bounds, sampleCount),
        !.maxDensity =
            MathMax(CurveDensities(CurvesOf(p.series, bounds, sampleCount)))]

InitDensity ==
    /\ classifier = NoClassifier
    /\ point = <<>>
    /\ matrix = <<>>
    /\ bf = One
    /\ call = NoCall
    /\ ret = <<>>
    /\ series = NoSeries
    /\ runs = <<>>
    /\ component = NoComponent
    /\ plot \in {NewDensityPlot(l) : l \in DensityPlots}
    /\ app = NoApp

DrawDensityCurves(sampleCount) ==
    /\ plot # NoPlot
    /\ call' = [op |-> "drawDensityCurves", thrown |-> FALSE]
    /\ ret' = <<>>
    /\ plot' = DensityPlot_drawDensityCurves(plot, calculateBounds(plot),
                                             sampleCount)
    /\ UNCHANGED <<classifier, point, matrix, bf, series, runs, component, app>>

NextDensity == \E sampleCount \in SampleCounts : DrawDensityCurves(sampleCount)

SpecDensity == InitDensity /\ [][NextDensity]_vars

----------------------------------------------------------------------------
(* The numbers a call returned *)

BayesEntryNumbers(e) ==
    {e.logLikelihoodRatio, e.bayesFactor, e.zScores[1], e.zScores[2]}

LDAEntryNumbers(e) ==
    {e.weight, e.contribution, e.bayesFactor, e.zScores[1], e.zScores[2]}

ReturnedNumbers ==
    IF call.thrown THEN {}
    ELSE CASE call.op = "computeLogPosteriors" ->
                {ret[i].logPosterior : i \in 1..Len(ret)}
           [] call.op = "computeDiscriminantScores" ->
                {ret[i].score : i \in 1..Len(ret)}
           [] call.op = "computeMahalanobisDistances" ->
                {ret[i].distance : i \in 1..Len(ret)}
           [] call.op = "computePerDimensionEvidence" ->
                IF classifier.kind = "bayes"
                THEN UNION {BayesEntryNumbers(ret[dim]) : dim \in DOMAIN ret}
                ELSE UNION {LDAEntryNumbers(ret[dim]) : dim \in DOMAIN ret}
           [] call.op = "classifyWithDetails" ->
                {ret.bayesFactor}
                \cup {ret.results[i].posterior : i \in 1..Len(ret.results)}
                \cup (IF classifier.kind = "bayes"
                      THEN {ret.results[i].logPosterior :
                                i \in 1..Len(ret.results)}
                           \cup UNION {BayesEntryNumbers(ret.perDimension[dim]) :
                                        dim \in DOMAIN ret.perDimension}
                      ELSE {ret.results[i].score : i \in 1..Len(ret.results)}
                           \cup {ret.mahalanobis[i].distance :
                                    i \in 1..Len(ret.mahalanobis)}
                           \cup UNION {LDAEntryNumbers(ret.perDimension[dim]) :
                                        dim \in DOMAIN ret.perDimension})
           [] OTHER -> {}

\* Every number the model computes is one of the number system.
NoUnrep == \A a \in ReturnedNumbers : a.k \in {"rat", "inf", "ninf", "nan", "log", "sqrt"}

----------------------------------------------------------------------------
(* The properties *)

LDAMethods ==
    {"computeDiscriminantScores", "computeMahalanobisDistances",
     "computePerDimensionEvidence", "classifyWithDetails"}

\* an LDA method taking the point has just returned or thrown
AfterLDACall == classifier.kind = "lda" /\ call.op \in LDAMethods

\* the pooled covariance of the queried dimensions is singular: invertMatrix
\* returns null for it
Singular ==
    /\ ~LDA_Throws(classifier, point)
    /\ LDA_inverse(classifier, point).isNull

\* in this series every two queried dimensions have positive variance and
\* correlation 1 or -1
PerfectlyCorrelatedIn(s, dims) ==
    \A i, j \in 1..Len(dims) :
        /\ Greater(Series_covariance(s, dims[i], dims[i]), Zero)
        /\ Square(Series_covariance(s, dims[i], dims[j]))
             = Mul(Series_covariance(s, dims[i], dims[i]),
                   Series_covariance(s, dims[j], dims[j]))

PerfectlyCorrelated ==
    /\ Len(point) >= 2
    /\ PerfectlyCorrelatedIn(classifier.seriesList[1], PointDims(point))
    /\ PerfectlyCorrelatedIn(classifier.seriesList[2], PointDims(point))

\* the pooled variance of the i-th queried dimension
PooledVariance(i) ==
    LDA_computePooledCovariance(classifier, PointDims(point))[i][i]

\* the score of class cls by independent features: the sum over the
\* dimensions of positive pooled variance of (x mu - mu^2 / 2) / variance,
\* plus log(prior)
IndependentScore(cls) ==
    Add(SumSeq([i \in 1..Len(point) |->
            IF Greater(PooledVariance(i), Zero)
            THEN Div(Sub(Mul(Int2Num(point[i].value),
                             Series_mean(classifier.seriesList[cls],
                                         point[i].dim)),
                         Mul(Half,
                             Square(Series_mean(classifier.seriesList[cls],
                                                point[i].dim)))),
                     PooledVariance(i))
            ELSE Zero], Zero),
        Log(classifier.priors[cls]))

FallbackScores(scores) ==
    /\ Len(scores) = 2
    /\ \A cls \in 1..2 : NumEq(scores[cls].score, IndependentScore(cls))

FallbackDistances(distances) == Len(distances) = 2

FallbackEvidence(perDimension) ==
    /\ DOMAIN perDimension = PointKeys(point)
    /\ \A dim \in DOMAIN perDimension :
          perDimension[dim].weight = Div(One, Int2Num(Len(point)))

\* C1: when the pooled covariance of the queried dimensions is singular, none
\* of computeDiscriminantScores, computeMahalanobisDistances,
\* computePerDimensionEvidence and classifyWithDetails of LDAClassifier
\* throws; each returns its fallback result: two scores, those of the
\* diagonal approximation, two distances, and one perDimension entry for each
\* queried dimension, of weight 1/k; every number returned is finite when the
\* queried dimensions are perfectly correlated in both classes.
C1_SingularFallback ==
    (AfterLDACall /\ Singular) =>
        /\ ~call.thrown
        /\ call.op = "computeDiscriminantScores" => FallbackScores(ret)
        /\ call.op = "computeMahalanobisDistances" => FallbackDistances(ret)
        /\ call.op = "computePerDimensionEvidence" => FallbackEvidence(ret)
        /\ call.op = "classifyWithDetails" =>
              /\ FallbackScores(ret.results)
              /\ FallbackDistances(ret.mahalanobis)
              /\ FallbackEvidence(ret.perDimension)
        /\ PerfectlyCorrelated => \A a \in ReturnedNumbers : IsFinite(a)

\* classifyWithDetails returned for two perfectly correlated dimensions
C1_Witness ==
    /\ AfterLDACall /\ Singular /\ PerfectlyCorrelated
    /\ call.op = "classifyWithDetails"
    /\ ~call.thrown
    /\ classifier.priors # <<Half, Half>>

----------------------------------------------------------------------------
(* invertMatrix.  The arithmetic of the model is exact and the entries of   *)
(* the matrices are finite, so the only magnitude below 1e-12 is 0.         *)

\* the matrix without its first row and its j-th column
Minor(m, j) ==
    [r \in 1..(Len(m) - 1) |->
        [c \in 1..(Len(m) - 1) |-> m[r + 1][IF c < j THEN c ELSE c + 1]]]

RECURSIVE Det(_)
\* the determinant, by expansion along the first row
Det(m) ==
    IF Len(m) = 0 THEN One
    ELSE IF Len(m) = 1 THEN m[1][1]
    ELSE SumSeq([j \in 1..Len(m) |->
                    Mul(IF j % 2 = 1 THEN m[1][j] ELSE Neg(m[1][j]),
                        Det(Minor(m, j)))], Zero)

MatMul(a, b) ==
    [i \in 1..Len(a) |-> [j \in 1..Len(a) |->
        SumSeq([e \in 1..Len(a) |-> Mul(a[i][e], b[e][j])], Zero)]]

Identity(n) == [i \in 1..n |-> [j \in 1..n |-> IF i = j THEN One ELSE Zero]]

\* every pivot candidate of column col, the rows from col on, is below 1e-12
CandidatesBelow(aug, n, col) ==
    \A row \in col..n : LessThanEpsilon(Abs(aug[row][col]))

RECURSIVE SomeColumnBelow(_, _, _)
\* at some elimination column from col on, the largest candidate is below
\* 1e-12
SomeColumnBelow(aug, n, col) ==
    /\ col <= n
    /\ \/ CandidatesBelow(aug, n, col)
       \/ SomeColumnBelow(
            Eliminate(
                ScaleRow(SwapRows(aug, col, PivotRow(aug, n, col, col + 1, col)),
                         n, col,
                         aug[PivotRow(aug, n, col, col + 1, col)][col]),
                n, col),
            n, col + 1)

\* the matrix with the identity at its right
Augmented(m) ==
    [i \in 1..Len(m) |-> [j \in 1..(2 * Len(m)) |->
        IF j <= Len(m) THEN m[i][j]
        ELSE IF j - Len(m) = i THEN One ELSE Zero]]

----------------------------------------------------------------------------
(* The posteriors of LDAClassifier.classifyWithDetails *)

\* C3: for every point, classifyWithDetails of LDAClassifier returns two
\* posteriors, each in [0,1], that sum to 1, and the winner is the class of
\* the strictly larger posterior, class 0 when they are equal.
C3_LDAPosteriors ==
    (AfterLDACall /\ call.op = "classifyWithDetails" /\ ~call.thrown) =>
        /\ Len(ret.results) = 2
        /\ \A i \in 1..2 :
              /\ Geq(ret.results[i].posterior, Zero)
              /\ Leq(ret.results[i].posterior, One)
        /\ NumEq(Add(ret.results[1].posterior, ret.results[2].posterior), One)
        /\ ret.winner =
              IF Greater(ret.results[2].posterior, ret.results[1].posterior)
              THEN 2 ELSE 1

\* classifyWithDetails returned for two classes of a single sample each
C3_Witness ==
    /\ AfterLDACall /\ call.op = "classifyWithDetails" /\ ~call.thrown
    /\ IsNaN(ret.results[1].posterior)
    /\ IsNaN(ret.results[2].posterior)

----------------------------------------------------------------------------
(* classifyWithDetails never fails *)

\* C4: for any two Series and any point, classifyWithDetails of both
\* classifiers returns without throwing, and its winner is one of the two
\* classes.
C4_NeverThrows ==
    (call.op = "classifyWithDetails" /\ Len(classifier.seriesList) = 2) =>
        /\ ~call.thrown
        /\ ret.winner \in 1..2

\* classifyWithDetails threw for a point with a dimension named constructor
C4_Witness ==
    /\ call.op = "classifyWithDetails"
    /\ Len(classifier.seriesList) = 2
    /\ "constructor" \in PointKeys(point)
    /\ call.thrown

----------------------------------------------------------------------------
(* The Bayes factor and the priors *)

\* the Bayes factor classifyWithDetails reports after setPriors(priors)
BayesFactorUnder(priors) ==
    IF classifier.kind = "bayes"
    THEN Bayes_classifyWithDetails(Bayes_setPriors(classifier, priors),
                                   point).bayesFactor
    ELSE LDA_classifyWithDetails(LDA_setPriors(classifier, priors),
                                 point).bayesFactor

\* C5: for fixed Series and a fixed point, the bayesFactor classifyWithDetails
\* reports is the same for every pair of priors installed with setPriors, for
\* both classifiers.
C5_BayesFactorIgnoresPriors ==
    (/\ call.op = "classifyWithDetails"
     /\ ~call.thrown
     /\ Len(classifier.seriesList) = 2) =>
        \A priors \in PriorVectors :
            Len(priors) = 2 => BayesFactorUnder(priors) = ret.bayesFactor

\* LDAClassifier reported a Bayes factor that other priors change
C5_Witness ==
    /\ AfterLDACall /\ call.op = "classifyWithDetails" /\ ~call.thrown
    /\ IsFinite(ret.bayesFactor)
    /\ BayesFactorUnder(<<Rat(1, 4), Rat(3, 4)>>) # BayesFactorUnder(<<Half, Half>>)

----------------------------------------------------------------------------
(* getEvidenceCategory *)

\* a >= t, for a = bf if bf >= 1 else 1/bf, by the numerator and the
\* denominator of bf: 1/0 is Infinity, 1/bf is negative for negative bf, and
\* NaN compares false
MagnitudeAtLeast(b, t) ==
    CASE b.k = "inf" -> TRUE
      [] b.k = "rat" ->
            IF b.n >= b.d THEN b.n >= t * b.d
            ELSE IF b.n > 0 THEN b.d >= t * b.n
            ELSE b.n = 0
      [] OTHER -> FALSE

ScaleCategory(b) ==
    IF MagnitudeAtLeast(b, 100) THEN "extreme"
    ELSE IF MagnitudeAtLeast(b, 30) THEN "veryStrong"
    ELSE IF MagnitudeAtLeast(b, 10) THEN "strong"
    ELSE IF MagnitudeAtLeast(b, 3) THEN "moderate"
    ELSE "anecdotal"

\* C6: with a = bf if bf >= 1 else 1/bf, getEvidenceCategory(bf) returns
\* extreme when a >= 100, veryStrong when 30 <= a < 100, strong when
\* 10 <= a < 30, moderate when 3 <= a < 10 and anecdotal otherwise; it favors
\* "first" exactly when bf >= 1; bf = 1 gives anecdotal and first; bf and
\* 1/bf get the same category.
C6_EvidenceScale ==
    call.op = "getEvidenceCategory" =>
        /\ ret.category = ScaleCategory(bf)
        /\ ret.favors = "first" <=>
              (bf.k = "inf" \/ (bf.k = "rat" /\ bf.n >= bf.d))
        /\ ret.favors \in {"first", "second"}
        /\ bf = One => (ret.category = "anecdotal" /\ ret.favors = "first")
        /\ getEvidenceCategory(Div(One, bf)).category = ret.category

\* getEvidenceCategory returned for a Bayes factor exactly at a threshold of
\* the side favoring the second class
C6_Witness ==
    /\ call.op = "getEvidenceCategory"
    /\ bf = Rat(1, 30)
    /\ ret.category = "veryStrong"
    /\ ret.favors = "second"

----------------------------------------------------------------------------
(* BayesianClassifier *)

AfterBayesCall(opName) == classifier.kind = "bayes" /\ call.op = opName

\* best is a class of maximal log-posterior, and the earliest of them
EarliestMaximum(logPosteriors, best) ==
    /\ best \in 1..Len(logPosteriors)
    /\ \A j \in 1..Len(logPosteriors) :
          ~Greater(logPosteriors[j].logPosterior,
                   logPosteriors[best].logPosterior)
    /\ \A j \in 1..(best - 1) :
          Less(logPosteriors[j].logPosterior, logPosteriors[best].logPosterior)

\* C7: classify returns a class whose log-posterior is maximal among all
\* classes, the earliest in seriesList when several share the maximum; so a
\* class of log-posterior -Infinity is returned only if none is larger.
C7_ClassifyMaximum ==
    (/\ AfterBayesCall("classify")
     /\ ~call.thrown
     /\ Len(classifier.seriesList) >= 1) =>
        EarliestMaximum(Bayes_computeLogPosteriors(classifier, point), ret)

\* classify returned the first of two classes of equal, finite log-posterior
C7_Witness ==
    /\ AfterBayesCall("classify") /\ ~call.thrown
    /\ Len(classifier.seriesList) = 2
    /\ ret = 1
    /\ IsFinite(ClassLogPosterior(classifier, point, 1))
    /\ ClassLogPosterior(classifier, point, 1)
         = ClassLogPosterior(classifier, point, 2)

\* the Gaussian density of class i is 0 on some dimension of the point
ZeroDensity(c, pt, i) ==
    \E e \in 1..Len(pt) :
        ~Greater(gaussianPdf(Int2Num(pt[e].value),
                             Series_mean(c.seriesList[i], pt[e].dim),
                             Series_stddev(c.seriesList[i], pt[e].dim)), Zero)

\* the sequence without its i-th element
Without(seq, i) == SubSeq(seq, 1, i - 1) \o SubSeq(seq, i + 1, Len(seq))

\* the classifier of the other classes, with their priors
ClassifierWithout(c, i) ==
    [c EXCEPT !.seriesList = Without(@, i), !.priors = Without(@, i)]

LogPosteriorsOf(results) ==
    [j \in 1..Len(results) |-> results[j].logPosterior]

\* C8: computeLogPosteriors returns one entry per class in seriesList order;
\* a class whose density is 0 on a dimension of the point gets -Infinity, no
\* error is raised, and the other classes get the log-posteriors they get
\* when that class is absent.
C8_ZeroDensityClass ==
    AfterBayesCall("computeLogPosteriors") =>
        /\ ~call.thrown
        /\ Len(ret) = Len(classifier.seriesList)
        /\ \A i \in 1..Len(ret) : ret[i].series = i
        /\ \A i \in 1..Len(ret) :
              ZeroDensity(classifier, point, i) =>
                 /\ ret[i].logPosterior = NInf
                 /\ LogPosteriorsOf(Without(ret, i))
                      = LogPosteriorsOf(Bayes_computeLogPosteriors(
                            ClassifierWithout(classifier, i), point))

\* computeLogPosteriors returned for three classes, one of them of density 0
\* and another not
C8_Witness ==
    /\ AfterBayesCall("computeLogPosteriors") /\ ~call.thrown
    /\ Len(ret) = 3
    /\ ZeroDensity(classifier, point, 2)
    /\ IsFinite(ret[1].logPosterior)
    /\ IsFinite(ret[3].logPosterior)

C10_TwoClassesOnly ==
    AfterBayesCall("classifyWithDetails") =>
        IF Len(classifier.seriesList) = 2
        THEN ~call.thrown =>
                /\ DOMAIN ret.perDimension = PointKeys(point)
                /\ ret.evidence = getEvidenceCategory(ret.bayesFactor)
        ELSE /\ ~call.thrown
             /\ ret.bayesFactor = One
             /\ ret.evidence.category = "anecdotal"
             /\ ret.perDimension = <<>>

\* classifyWithDetails returned for three classes, the first two of which
\* have a likelihood ratio other than 1
C10_Witness ==
    /\ AfterBayesCall("classifyWithDetails") /\ ~call.thrown
    /\ Len(classifier.seriesList) = 3
    /\ Len(point) >= 1
    /\ ClassLogPosterior(classifier, point, 1)
         # ClassLogPosterior(classifier, point, 2)

----------------------------------------------------------------------------
\* C11: constructing an LDAClassifier from a list of other than 2 series
\* throws and leaves no classifier, so every LDA classifier holds exactly 2
\* series; and BayesianClassifier.computePerDimensionEvidence throws
\* whenever the classifier does not hold exactly 2 series.
C11_TwoClassOperations ==
    /\ call.op = "new LDAClassifier" =>
          (call.thrown <=> classifier = NoClassifier)
    /\ classifier.kind = "lda" => Len(classifier.seriesList) = 2
    /\ (AfterBayesCall("computePerDimensionEvidence")
         /\ Len(classifier.seriesList) # 2) => call.thrown

\* the construction of an LDA classifier from 0, 1 or 3 series was refused
C11_Witness ==
    /\ call.op = "new LDAClassifier"
    /\ call.thrown
    /\ classifier = NoClassifier

----------------------------------------------------------------------------
\* the classifier over the same data, nothing memoised, with these priors
FreshWith(c, priors) ==
    [c EXCEPT !.seriesList = [i \in DOMAIN @ |-> NewSeries(@[i].values)],
              !.priors = priors]

\* what the classification methods return for the priors
ClassificationUnder(c, opName, priors, p) ==
    IF c.kind = "bayes"
    THEN CASE opName = "computeLogPosteriors" ->
                 Bayes_computeLogPosteriors(FreshWith(c, priors), p)
           [] opName = "classify" -> Bayes_classify(FreshWith(c, priors), p)
           [] OTHER -> Bayes_classifyWithDetails(FreshWith(c, priors), p)
    ELSE CASE opName = "computeDiscriminantScores" ->
                 LDA_computeDiscriminantScores(FreshWith(c, priors), p)
           [] OTHER -> LDA_classifyWithDetails(FreshWith(c, priors), p)

ClassificationMethods ==
    {"computeLogPosteriors", "classify", "classifyWithDetails",
     "computeDiscriminantScores"}

\* one step as setPriors is promised to behave
SetPriorsStep ==
    /\ \A priors \in PriorVectors :
          SetPriors(priors) =>
             IF Len(priors) # Len(classifier.seriesList)
             THEN call'.thrown /\ classifier'.priors = classifier.priors
             ELSE ~call'.thrown /\ classifier'.priors = priors
    /\ call'.op # "setPriors" => classifier'.priors = classifier.priors
    /\ (call'.op \in ClassificationMethods /\ ~call'.thrown) =>
          ret' = ClassificationUnder(classifier, call'.op,
                                     classifier.priors, point)

\* C12: for both classifiers, setPriors(priors) with an array whose length
\* is not the number of classes throws and leaves the priors as they were;
\* with a matching length it replaces the priors, no other method changes
\* them, and every later classification is the one of the priors last set.
C12_SetPriors == [][SetPriorsStep]_vars

\* priors other than the uniform ones were set, and the classification that
\* followed differs from the one under the uniform priors
C12_Witness ==
    /\ call.op = "classifyWithDetails"
    /\ ~call.thrown
    /\ classifier.priors = <<Rat(1, 4), Rat(3, 4)>>
    /\ ret = ClassificationUnder(classifier, call.op, classifier.priors, point)
    /\ ret # ClassificationUnder(classifier, call.op, <<Half, Half>>, point)

----------------------------------------------------------------------------
\* C13: after new BayesianClassifier(seriesList) for k >= 2 series and no
\* labels, labels and priors have exactly k entries each, every class has a
\* defined label and every prior is 1/k.
C13_ParallelArrays ==
    (call.op = "new BayesianClassifier" /\ Len(classifier.seriesList) >= 2) =>
        LET k == Len(classifier.seriesList)
        IN  /\ Len(classifier.labels) = k
            /\ Len(classifier.priors) = k
            /\ \A i \in 1..k :
                  /\ LabelAt(classifier.labels, i) # "undefined"
                  /\ classifier.priors[i] = Div(One, Int2Num(k))

\* a classifier of 3 classes was constructed: its priors are 1/3 each, and
\* its third class has no label
C13_Witness ==
    /\ call.op = "new BayesianClassifier"
    /\ Len(classifier.seriesList) = 3
    /\ classifier.priors = <<Rat(1, 3), Rat(1, 3), Rat(1, 3)>>
    /\ Len(classifier.labels) = 2
    /\ LabelAt(classifier.labels, 3) = "undefined"

----------------------------------------------------------------------------
StatNames == {"mean", "stddev", "covariance", "correlation", "pdf"}

\* every entry of the caches of s is an entry of the caches of t
CachesKept(s, t) ==
    \A stat \in StatNames :
        \A key \in DOMAIN s.stats[stat] :
            /\ key \in DOMAIN t.stats[stat]
            /\ t.stats[stat][key] = s.stats[stat][key]

\* the key of the cache the call of a memoised method asks for
CallKey(c) ==
    IF c.op \in {"covariance", "correlation"}
    THEN PairKey(c.args[1], c.args[2]) ELSE c.args[1]

\* one step of a Series as the memoisation is promised to behave
MemoStep ==
    /\ \A key \in DOMAIN runs' : runs'[key] <= 1
    /\ CachesKept(series, series')
    /\ (call'.op \in StatNames /\ CallKey(call') \in DOMAIN series.stats[call'.op])
          => /\ ret' = series.stats[call'.op][CallKey(call')]
             /\ runs' = runs

\* C14: over any sequence of calls of mean, stddev, covariance, correlation
\* and pdf on a Series, the computation of a statistic runs at most once for
\* each key; a call for a key already stored returns the stored value (for
\* pdf the function object created first) and computes nothing; and no
\* cache entry is ever removed or overwritten.
C14_ComputedOnce == [][MemoStep]_vars

\* stddev(x) was called after pdf(x) had stored its function, hence after
\* the standard deviation was stored: it ran once in all
C14_Witness ==
    /\ call.op = "stddev"
    /\ call.args = <<"x">>
    /\ "x" \in DOMAIN series.stats.pdf
    /\ runs[<<"stddev", "x">>] = 1
    /\ ret = series.stats.stddev["x"]

----------------------------------------------------------------------------
\* one step that leaves the arrays of every Series as they are
FrameStep ==
    /\ series # NoSeries => series'.values = series.values
    /\ classifier # NoClassifier =>
          \A i \in 1..Len(classifier.seriesList) :
              classifier'.seriesList[i].values
                  = classifier.seriesList[i].values

\* C15: no method of a Series (dimensions, valuesOf, mean, stddev,
\* covariance, correlation, pdf, the functions pdf returns) and no method of
\* a classifier changes the arrays the Series was constructed from: each
\* keeps its length and its elements.
C15_ArraysUntouched == [][FrameStep]_vars

\* every statistic of both dimensions was computed, and the arrays are the
\* ones of the construction
C15_Witness ==
    /\ series # NoSeries
    /\ call.op = "pdf()"
    /\ DOMAIN series.stats.correlation = {"x,x", "x,y", "y,x", "y,y"}
    /\ DOMAIN series.stats.pdf = {"x", "y"}
    /\ series.values = SeriesM

----------------------------------------------------------------------------
\* the dimension is no key of the values the Series was constructed from
UnknownDimension(dim) == dim \notin DOMAIN series.values

EmptyDimension(dim) ==
    dim \in DOMAIN series.values /\ series.values[dim] = <<>>

\* C16: for every dimension name that is no key of the values, valuesOf
\* returns an empty array and does not throw; mean and stddev of such a
\* dimension, and of a dimension whose array is empty, return 0.
C16_UnknownDimension ==
    /\ (call.op = "valuesOf" /\ UnknownDimension(call.args[1])) =>
          (~call.thrown /\ ret = ArrayOf(<<>>))
    /\ (call.op \in {"mean", "stddev"}
         /\ (UnknownDimension(call.args[1]) \/ EmptyDimension(call.args[1])))
          => (~call.thrown /\ ret = Zero)

\* mean was asked for the dimension "constructor", which is no key of the
\* values, and threw
C16_Witness ==
    /\ call.op = "mean"
    /\ call.args = <<"constructor">>
    /\ UnknownDimension("constructor")
    /\ call.thrown

----------------------------------------------------------------------------
\* the array of a dimension of series, none for a name that is no key
ArrayFor(dim) ==
    IF dim \in DOMAIN series.values THEN series.values[dim] ELSE <<>>

RECURSIVE SumInt(_)
SumInt(xs) == IF xs = <<>> THEN 0 ELSE Head(xs) + SumInt(Tail(xs))

\* the population covariance of two integer sequences of one length N > 0:
\* sum((x_i - mean_x)(y_i - mean_y)) / N = (N sum(x_i y_i) - sum(x) sum(y)) / N^2
PopulationCovariance(xs, ys) ==
    Rat(Len(xs) * SumInt([i \in 1..Len(xs) |-> xs[i] * ys[i]])
            - SumInt(xs) * SumInt(ys),
        Len(xs) * Len(xs))

\* C17: Series.covariance(dimA, dimB) returns 0 whenever the arrays of the
\* two dimensions differ in length or are empty, and otherwise the
\* population covariance sum((x_i - mean_x)(y_i - mean_y)) / N.
C17_Covariance ==
    (call.op = "covariance" /\ ~call.thrown) =>
        ret = IF Len(ArrayFor(call.args[1])) # Len(ArrayFor(call.args[2]))
                 \/ Len(ArrayFor(call.args[1])) = 0
              THEN Zero
              ELSE PopulationCovariance(ArrayFor(call.args[1]),
                                        ArrayFor(call.args[2]))

\* the covariance of two dimensions of 8 values each was asked for: 1/2
C17_Witness ==
    /\ call.op = "covariance"
    /\ call.args = <<"x", "y">>
    /\ series.values = SeriesC0
    /\ ret = Half
    /\ ret = PopulationCovariance(SeriesC0.x, SeriesC0.y)

----------------------------------------------------------------------------
\* the values stored for (a, b) and for (b, a) are equal when both are
Symmetric(cache) ==
    \A a, b \in SeriesNames :
        (PairKey(a, b) \in DOMAIN cache /\ PairKey(b, a) \in DOMAIN cache)
            => cache[PairKey(a, b)] = cache[PairKey(b, a)]

\* C18: for every Series and all dimensions a and b, covariance(a, b) is
\* covariance(b, a) and correlation(a, b) is correlation(b, a), whichever
\* order was asked for, and stored, first.
C18_Symmetry ==
    /\ series # NoSeries =>
          /\ Symmetric(series.stats.covariance)
          /\ Symmetric(series.stats.correlation)
    /\ (call.op \in {"covariance", "correlation"}
         /\ PairKey(call.args[2], call.args[1])
                \in DOMAIN series.stats[call.op])
          => ret = series.stats[call.op][PairKey(call.args[2], call.args[1])]

\* correlation(y, x) was asked for while correlation(x, y) is stored, and
\* both are 1/2
C18_Witness ==
    /\ call.op = "correlation"
    /\ call.args = <<"y", "x">>
    /\ PairKey("x", "y") \in DOMAIN series.stats.correlation
    /\ ret = Half
    /\ series.stats.correlation[PairKey("x", "y")] = Half
    /\ series.stats.covariance[PairKey("x", "y")]
          = series.stats.covariance[PairKey("y", "x")]

----------------------------------------------------------------------------
\* the population standard deviation of an integer sequence, 0 when empty:
\* the root of (N sum(x_i^2) - sum(x)^2) / N^2
PopulationStddev(xs) ==
    IF xs = <<>> THEN Zero
    ELSE Sqrt(Rat(Len(xs) * SumInt([i \in 1..Len(xs) |-> xs[i] * xs[i]])
                      - SumInt(xs) * SumInt(xs),
                  Len(xs) * Len(xs)))

\* the covariance of two dimensions of series as C17 states it
CovarianceOf(a, b) ==
    IF Len(ArrayFor(a)) # Len(ArrayFor(b)) \/ Len(ArrayFor(a)) = 0 THEN Zero
    ELSE PopulationCovariance(ArrayFor(a), ArrayFor(b))

ZeroSpread(dim) == PopulationStddev(ArrayFor(dim)) = Zero

\* C19: zero spread causes no division by zero in a Series:
\* correlation(dimA, dimB) returns 0 when the standard deviation of either
\* dimension is 0, and covariance / (stddevA * stddevB) otherwise; and the
\* function pdf(dim) returned gives 0 for every argument when the standard
\* deviation of the dimension is 0.
C19_ZeroSpread ==
    /\ (call.op = "correlation" /\ ~call.thrown) =>
          /\ IsFinite(ret)
          /\ ret = IF ZeroSpread(call.args[1]) \/ ZeroSpread(call.args[2])
                   THEN Zero
                   ELSE Div(CovarianceOf(call.args[1], call.args[2]),
                            Mul(PopulationStddev(ArrayFor(call.args[1])),
                                PopulationStddev(ArrayFor(call.args[2]))))
    /\ (call.op = "pdf()" /\ ZeroSpread(call.args[1])) => ret = Zero

\* the correlation of a dimension of zero spread and one of spread 1 was
\* asked for: 0
C19_Witness ==
    /\ call.op = "correlation"
    /\ call.args = <<"x", "y">>
    /\ series.values = SeriesZY
    /\ ZeroSpread("x")
    /\ ~ZeroSpread("y")
    /\ ret = Zero

----------------------------------------------------------------------------
\* the "no result" state: the result summary, the details and the evidence
\* breakdown are hidden
NoResultState(shown) == ~shown.summary /\ ~shown.details /\ ~shown.work

\* C20: in ClassificationComponent, after any sequence of UI events
\* (dataset load or change, unit change, classifier selection, add card,
\* remove card, measurement selection, value input), every call of
\* classify() that finds no dataset, or no card with both a selected
\* measurement and a numeric value, shows the "no result" state and
\* constructs no classifier; and once classify() has run, the page shows the
\* "no result" state whenever there is no dataset or no such card.
C20_NoResult ==
    component # NoComponent =>
        /\ \A i \in 1..Len(component.log) :
              (~component.log[i].loaded \/ ~component.log[i].valued) =>
                  /\ NoResultState(component.log[i].shown)
                  /\ component.log[i].built = "none"
        /\ (component.classifyCalled
             /\ (~component.dataset.loaded
                 \/ ~HasValuedCard(component.measurementCards)))
              => NoResultState(component.shown)

\* the user emptied the input of the only card: classify() found a dataset
\* and a card with a measurement but no number, and showed "no result"
C20_Witness ==
    /\ component # NoComponent
    /\ call.op = "input"
    /\ Len(component.measurementCards) = 1
    /\ component.measurementCards[1].checked = "stature"
    /\ component.measurementCards[1].value = Blank
    /\ Len(component.log) = 1
    /\ component.log[1].loaded
    /\ ~component.log[1].valued
    /\ component.log[1].built = "none"
    /\ NoResultState(component.shown)

----------------------------------------------------------------------------
(* The curves of a density plot *)

\* the plot drew the curves of its series
CurvesDrawn == plot # NoPlot /\ Len(plot.curves) = Len(plot.series)

\* the sample of curve i, its size and its mean
SampleOf(i) == plot.series[i].values.x
SampleMean(i) == Rat(SumInt(SampleOf(i)), Len(SampleOf(i)))

\* the sample of curve i has more than one value and a spread
Spread(i) ==
    /\ Len(SampleOf(i)) > 1
    /\ \E j \in 1..Len(SampleOf(i)) : SampleOf(i)[j] # SampleOf(i)[1]

\* how far the point is from the mean of the sample of curve i
FromMean(i, pt) == Abs(Sub(pt.x, SampleMean(i)))

----------------------------------------------------------------------------
(* The per-dimension evidence of LDAClassifier *)

\* computePerDimensionEvidence or classifyWithDetails of an LDAClassifier
\* has returned for a point of at least one dimension
LDAEvidenceReturned ==
    /\ classifier.kind = "lda"
    /\ call.op \in {"computePerDimensionEvidence", "classifyWithDetails"}
    /\ ~call.thrown
    /\ Len(point) >= 1

\* the perDimension object returned
PerDimensionReturned ==
    IF call.op = "classifyWithDetails" THEN ret.perDimension ELSE ret

\* w = inverse * (mu0 - mu1) is zero in every dimension
ZeroWeightVector ==
    /\ ~Singular
    /\ \A i \in 1..Len(point) :
          IsZero(WeightVector(classifier, PointDims(point),
                              LDA_inverse(classifier, point).rows)[i])

\* C22: in every branch of LDAClassifier.computePerDimensionEvidence (full
\* inverse, inverse with all-zero weight vector, singular fallback), for a
\* point with k >= 1 dimensions the reported per-dimension weights are
\* non-negative and sum to 1; in the singular fallback and when the weight
\* vector is all zero, each weight equals 1/k.
C22_Weights ==
    LDAEvidenceReturned =>
        /\ DOMAIN PerDimensionReturned = PointKeys(point)
        /\ \A i \in 1..Len(point) :
              Geq(PerDimensionReturned[point[i].dim].weight, Zero)
        /\ NumEq(SumSeq([i \in 1..Len(point) |->
                            PerDimensionReturned[point[i].dim].weight], Zero),
                 One)
        /\ (Singular \/ ZeroWeightVector) =>
              \A i \in 1..Len(point) :
                  PerDimensionReturned[point[i].dim].weight
                     = Rat(1, Len(point))

\* the full inverse gave two dimensions unequal weights
C22_Witness ==
    /\ LDAEvidenceReturned
    /\ call.op = "computePerDimensionEvidence"
    /\ ~Singular
    /\ ~ZeroWeightVector
    /\ Len(point) = 2
    /\ PerDimensionReturned[point[1].dim].weight
          # PerDimensionReturned[point[2].dim].weight

\* C23: in the result of LDAClassifier.computePerDimensionEvidence, the sign
\* of a dimension's contribution w_i * (x_i - midpoint_i) indicates the class
\* that dimension favors: the favored side reported in that dimension's
\* entry (evidence.favors) is "first" exactly when the contribution is >= 0
\* and "second" exactly when it is negative.
C23_ContributionSign ==
    LDAEvidenceReturned =>
        \A i \in 1..Len(point) :
            /\ PerDimensionReturned[point[i].dim].evidence.favors = "first"
                  <=> Geq(PerDimensionReturned[point[i].dim].contribution, Zero)
            /\ PerDimensionReturned[point[i].dim].evidence.favors = "second"
                  <=> Less(PerDimensionReturned[point[i].dim].contribution, Zero)

\* the classes have the means 5 and 7 and the standard deviations 1 and 2;
\* the point x = 1 lies on the side of the first class (the contribution is
\* -4/5 * (1 - 6) = 4), where the wider second class has the larger density:
\* the entry reports the side of the univariate Bayes factor
C23_Witness ==
    /\ LDAEvidenceReturned
    /\ call.op = "computePerDimensionEvidence"
    /\ classifier.seriesList[1].values = SeriesV0
    /\ classifier.seriesList[2].values = SeriesV1
    /\ point = <<[dim |-> "x", value |-> 1]>>
    /\ ret["x"].contribution = Int2Num(4)
    /\ Less(ret["x"].bayesFactor, One)
    /\ ret["x"].evidence.favors = "second"

----------------------------------------------------------------------------
(* The per-dimension evidence of BayesianClassifier *)

\* computePerDimensionEvidence has returned, or classifyWithDetails of a
\* BayesianClassifier of two classes, which calls it
BayesEvidenceReturned ==
    /\ classifier.kind = "bayes"
    /\ Len(classifier.seriesList) = 2
    /\ call.op \in {"computePerDimensionEvidence", "classifyWithDetails"}
    /\ ~call.thrown

\* the density of the value of the i-th dimension of the point in class cls
DensityIn(cls, i) ==
    gaussianPdf(Int2Num(point[i].value),
                Series_mean(classifier.seriesList[cls], point[i].dim),
                Series_stddev(classifier.seriesList[cls], point[i].dim))

\* the entry follows the zero-density convention for the densities p0, p1
FollowsConvention(entry, p0, p1) ==
    /\ (Greater(p0, Zero) /\ Greater(p1, Zero)) =>
          /\ NumEq(entry.logLikelihoodRatio, Log(Div(p0, p1)))
          /\ NumEq(entry.bayesFactor, Div(p0, p1))
    /\ (Greater(p0, Zero) /\ IsZero(p1)) =>
          entry.logLikelihoodRatio = Inf /\ entry.bayesFactor = Inf
    /\ (IsZero(p0) /\ Greater(p1, Zero)) =>
          entry.logLikelihoodRatio = NInf /\ entry.bayesFactor = Zero
    /\ (IsZero(p0) /\ IsZero(p1)) =>
          entry.logLikelihoodRatio = Zero /\ entry.bayesFactor = One
    /\ Geq(entry.bayesFactor, One) <=> Geq(entry.logLikelihoodRatio, Zero)
    /\ ~IsNaN(entry.bayesFactor)
    /\ ~IsNaN(entry.logLikelihoodRatio)

\* C25: for every dimension of the point,
\* BayesianClassifier.computePerDimensionEvidence reports a log-likelihood
\* ratio and a Bayes factor that follow the same zero-density convention:
\* with densities p0, p1 it gives (log p0 - log p1, p0/p1) when both are
\* positive, (+Infinity, Infinity) when only p0 is positive, (-Infinity, 0)
\* when only p1 is positive and (0, 1) when both are 0; so the Bayes factor
\* is >= 1 exactly when the log-likelihood ratio is >= 0, and neither value
\* is ever NaN.
C25_ZeroDensityConvention ==
    BayesEvidenceReturned =>
        /\ DOMAIN PerDimensionReturned = PointKeys(point)
        /\ \A i \in 1..Len(point) :
              FollowsConvention(PerDimensionReturned[point[i].dim],
                                DensityIn(1, i), DensityIn(2, i))

\* only the first class has a positive density in a dimension of the point
C25_Witness ==
    /\ BayesEvidenceReturned
    /\ call.op = "computePerDimensionEvidence"
    /\ \E j \in 1..Len(point) :
          /\ Greater(DensityIn(1, j), Zero) /\ IsZero(DensityIn(2, j))
          /\ ret[point[j].dim].logLikelihoodRatio = Inf
          /\ ret[point[j].dim].bayesFactor = Inf

----------------------------------------------------------------------------
(* The pooled covariance *)

\* the values of dimension dim in class cls, none when the class lacks it
ClassValues(cls, dim) ==
    IF dim \in DOMAIN classifier.seriesList[cls].values
    THEN classifier.seriesList[cls].values[dim]
    ELSE <<>>

\* each class has one number of samples, the same in every requested
\* dimension: the n0 and n1 of the pooled covariance (the code reads them off
\* dims[0])
SamplesCounted ==
    \A cls \in 1..2 : \A i \in 1..Len(point) :
        Len(ClassValues(cls, point[i].dim)) = Len(ClassValues(cls, point[1].dim))

\* the number of samples of class cls
SamplesOf(cls) == Len(ClassValues(cls, point[1].dim))

\* the covariance of the dimensions a and b in class cls (0 without samples)
ClassCovariance(cls, a, b) ==
    IF SamplesOf(cls) = 0 THEN Zero
    ELSE PopulationCovariance(ClassValues(cls, a), ClassValues(cls, b))

\* ((n0 - 1) cov0(a, b) + (n1 - 1) cov1(a, b)) / (n0 + n1 - 2)
VarianceWeightedPool(a, b) ==
    Div(Add(Mul(Int2Num(SamplesOf(1) - 1), ClassCovariance(1, a, b)),
            Mul(Int2Num(SamplesOf(2) - 1), ClassCovariance(2, a, b))),
        Int2Num(SamplesOf(1) + SamplesOf(2) - 2))

\* C24: LDAClassifier.computePooledCovariance(dims) returns, on every call,
\* a freshly built symmetric k x k matrix whose cell (i,j) equals
\* ((n0 - 1) cov0(dims[i], dims[j]) + (n1 - 1) cov1(dims[i], dims[j]))
\* / (n0 + n1 - 2), where n0 and n1 are the numbers of samples of class 0 and
\* class 1 in the dimensions involved.  (The matrix is computed from the
\* statistics of the series at every call: the classifier keeps none.)
C24_PooledCovariance ==
    (/\ classifier.kind = "lda"
     /\ call.op = "computePooledCovariance"
     /\ SamplesCounted) =>
        /\ ~call.thrown
        /\ classifier.cache = <<>>
        /\ Len(ret) = Len(point)
        /\ \A i \in 1..Len(point) :
              /\ Len(ret[i]) = Len(point)
              /\ \A j \in 1..Len(point) :
                    /\ ret[i][j] = ret[j][i]
                    /\ ret[i][j] = VarianceWeightedPool(point[i].dim,
                                                        point[j].dim)

\* the pooled covariance of two correlated dimensions, asked for again after
\* an earlier call left the covariances memoised
C24_Witness ==
    /\ classifier.kind = "lda"
    /\ call.op = "computePooledCovariance"
    /\ SamplesCounted
    /\ Len(point) = 2
    /\ SamplesOf(1) = 8
    /\ ret[1][2] = Rat(1, 2)
    /\ ret[1][1] = One

----------------------------------------------------------------------------
(* The overall evidence and the winner *)

\* classifyWithDetails of a classifier of two classes with equal priors has
\* returned
DetailsOfTwoEqualClasses ==
    /\ classifier.kind \in {"bayes", "lda"}
    /\ Len(classifier.seriesList) = 2
    /\ classifier.priors = <<Half, Half>>
    /\ call.op = "classifyWithDetails"
    /\ ~call.thrown

\* C26: in the result of classifyWithDetails of either classifier with two
\* classes and equal priors, the overall evidence agrees with the winner for
\* every point, including zero-density and non-finite cases: evidence.favors
\* is "first" (bayesFactor >= 1) exactly when the winner is class 0, and
\* "second" exactly when the winner is class 1.
C26_EvidenceAgreesWithWinner ==
    DetailsOfTwoEqualClasses =>
        /\ ret.evidence.favors = "first" <=> ret.winner = 1
        /\ ret.evidence.favors = "first" <=> Geq(ret.bayesFactor, One)
        /\ ret.evidence.favors = "second" <=> ret.winner = 2

\* both classes have density 0 at the point: the winner is the first class,
\* the Bayes factor is 0 and the evidence favors the second
C26_Witness ==
    /\ DetailsOfTwoEqualClasses
    /\ classifier.kind = "bayes"
    /\ \A i \in 1..2 : ret.results[i].logPosterior = NInf
    /\ ret.winner = 1
    /\ ret.bayesFactor = Zero
    /\ ret.evidence.favors = "second"

----------------------------------------------------------------------------
(* The keys of the bivariate cache *)

\* the correlation of two dimensions of series, from their arrays
CorrelationOf(a, b) ==
    IF ZeroSpread(a) \/ ZeroSpread(b) THEN Zero
    ELSE Div(CovarianceOf(a, b),
             Mul(PopulationStddev(ArrayFor(a)), PopulationStddev(ArrayFor(b))))

\* C27: the bivariate cache of a Series never confuses two dimension pairs:
\* for any two distinct ordered pairs of dimension names (including names
\* that contain a comma) and any order of calls, covariance(a,b) and
\* correlation(a,b) return the value computed from the arrays of a and b,
\* never a value cached for another pair.
C27_PairsNotConfused ==
    /\ (call.op = "covariance" /\ ~call.thrown) =>
          ret = CovarianceOf(call.args[1], call.args[2])
    /\ (call.op = "correlation" /\ ~call.thrown) =>
          ret = CorrelationOf(call.args[1], call.args[2])

\* covariance("a", "b,c") returned -1, the covariance of "a,b" and "c"
\* memoised by an earlier call; the arrays of "a" and "b,c" have covariance 1
C27_Witness ==
    /\ call.op = "covariance"
    /\ call.args = <<"a", "b,c">>
    /\ series.values = SeriesK
    /\ CovarianceOf("a", "b,c") = One
    /\ CovarianceOf("a,b", "c") = Int2Num(-1)
    /\ ret = Int2Num(-1)

----------------------------------------------------------------------------
(* The measurements of the cards *)

\* the cards that contribute a dimension to the point of classify()
ScorableCards(c) ==
    {i \in 1..Len(c.measurementCards) : Scorable(c.measurementCards[i])}

\* C28: in ClassificationComponent, after any sequence of addCard,
\* removeCard, measurement selections and dataset changes (including a
\* change to a dataset that lacks a currently selected measurement), no two
\* measurement cards have the same selected measurement id, so every card
\* with a value contributes its own dimension to the classified point.
C28_DistinctMeasurements ==
    /\ \A i, j \in 1..Len(component.measurementCards) :
          (/\ i # j
           /\ component.measurementCards[i].measurementId # "")
          => component.measurementCards[i].measurementId
                # component.measurementCards[j].measurementId
    /\ Cardinality(PointOfCards(component.measurementCards))
          = Cardinality(ScorableCards(component))

\* the dataset changed to one without "stature": both cards have "weight"
\* selected and a value, and the point has the one dimension "weight"
C28_Witness ==
    /\ component.dataset = LoadedDataset(<<"weight">>)
    /\ Len(component.measurementCards) = 2
    /\ \A i \in 1..2 :
          /\ component.measurementCards[i].measurementId = "weight"
          /\ component.measurementCards[i].checked = "weight"
          /\ component.measurementCards[i].value = One
    /\ PointOfCards(component.measurementCards) = {"weight"}

----------------------------------------------------------------------------
(* The page (assets/scripts/main.js).  app is the record                   *)
(* [preferences, value, fetched, pending, event, rejected]:                *)
(* preferences.dataset, the id of dataset.value, the datasets whose        *)
(* _measurements are set, the calls of handleDatasetChange that wait for   *)
(* Dataset.fetch(), the id of the dataset the last DATASET_CHANGED event   *)
(* carried ("none" before the first) and whether a call was rejected.  A   *)
(* pending call is [id, waiting]: the dataset getDataset() found and the   *)
(* files of Promise.all that have not arrived.  The continuation of an     *)
(* await on a settled promise runs before the next event, so a call for a  *)
(* fetched dataset is one step.  initialize() attaches the listeners after *)
(* its own load has completed.                                             *)

DatasetIds == {"ansur1", "ansur2"}

DatasetFiles == {"measurements", "male", "female"}

\* the calls of handleDatasetChange followed at a time
MaxPending == 2

\* getDataset(), up to its await: the dataset preferences.dataset names
getDataset(a) == a.preferences

\* handleDatasetChange(), after getDataset() returned the dataset id
handleDatasetChange(a, id) == [a EXCEPT !.value = id, !.event = id]

\* Dataset.fetch() of all the files resolved: _measurements is assigned
Dataset_fetch(a, id) == [a EXCEPT !.fetched = @ \cup {id}]

\* the pending calls but the i-th
WithoutLoad(pending, i) ==
    [j \in 1..(Len(pending) - 1) |->
        IF j < i THEN pending[j] ELSE pending[j + 1]]

\* the page after initialize()
InitApp ==
    /\ classifier = NoClassifier
    /\ point = <<>>
    /\ matrix = <<>>
    /\ bf = One
    /\ call = NoCall
    /\ ret = <<>>
    /\ series = NoSeries
    /\ runs = <<>>
    /\ component = NoComponent
    /\ plot = NoPlot
    /\ app \in {[preferences |-> id, value |-> id, fetched |-> {id},
                 pending |-> <<>>, event |-> "none", rejected |-> FALSE] :
                   id \in DatasetIds}

\* a step of the page left it as after
AppStep(opName, after) ==
    /\ call' = [op |-> opName, thrown |-> FALSE]
    /\ app' = after
    /\ UNCHANGED <<classifier, point, matrix, bf, ret, series, runs,
                   component, plot>>

\* the "change" listener of the preference dropdown, case "dataset"
DatasetPreferenceChosen(id) ==
    /\ app # NoApp
    /\ id # app.preferences
    /\ id \in app.fetched \/ Len(app.pending) < MaxPending
    /\ AppStep("datasetPreference",
               IF id \in app.fetched
               THEN handleDatasetChange([app EXCEPT !.preferences = id],
                        getDataset([app EXCEPT !.preferences = id]))
               ELSE [app EXCEPT
                        !.preferences = id,
                        !.pending =
                            Append(@, [id |-> getDataset(
                                                [app EXCEPT
                                                    !.preferences = id]),
                                       waiting |-> DatasetFiles])])

\* a file of the i-th pending call arrived; with the last one fetch()
\* resolves and handleDatasetChange goes on
ResponseArrived(i, file) ==
    /\ app # NoApp
    /\ i \in 1..Len(app.pending)
    /\ file \in app.pending[i].waiting
    /\ AppStep("response",
               IF app.pending[i].waiting = {file}
               THEN handleDatasetChange(
                        Dataset_fetch(
                            [app EXCEPT !.pending = WithoutLoad(@, i)],
                            app.pending[i].id),
                        app.pending[i].id)
               ELSE [app EXCEPT !.pending[i].waiting = @ \ {file}])

\* a file of the i-th pending call failed: Promise.all rejects and
\* handleDatasetChange with it
ResponseFailed(i) ==
    /\ app # NoApp
    /\ i \in 1..Len(app.pending)
    /\ AppStep("rejected",
               [app EXCEPT !.pending = WithoutLoad(@, i),
                           !.rejected = TRUE])

NextApp ==
    \/ \E id \in DatasetIds : DatasetPreferenceChosen(id)
    \/ \E i \in 1..MaxPending, file \in DatasetFiles :
          ResponseArrived(i, file)
    \/ \E i \in 1..MaxPending : ResponseFailed(i)

SpecApp == InitApp /\ [][NextApp]_vars

\* C29: when the dataset preference is changed several times while earlier
\* dataset loads are still pending, then once every pending load has
\* completed the active dataset (dataset.value, and the dataset carried by
\* the last DATASET_CHANGED event) is the one named by the current
\* preferences.dataset; the result of a superseded load is discarded.
C29_ActiveDatasetIsPreferred ==
    (/\ app.pending = <<>>
     /\ ~app.rejected)
    => /\ app.value = app.preferences
       /\ app.event \in {"none", app.preferences}

\* "ansur2" was chosen and, while it loaded, "ansur1" again: the load of
\* "ansur2" completed last and is the active dataset
C29_Witness ==
    /\ app.pending = <<>>
    /\ ~app.rejected
    /\ call.op = "response"
    /\ app.preferences = "ansur1"
    /\ app.fetched = DatasetIds
    /\ app.value = "ansur2"
    /\ app.event = "ansur2"

----------------------------------------------------------------------------
(* The argument of invertMatrix *)

\* C30: LDAClassifier.invertMatrix does not modify the matrix it is given,
\* whether it returns an inverse or null: after the call every cell of the
\* argument is unchanged, so the diagonal fallback of
\* computeDiscriminantScores reads the original pooled covariance diagonal.
C30_ArgumentUnchanged ==
    [][call'.op = "invertMatrix"
          => /\ Len(matrix') = Len(matrix)
             /\ \A i \in 1..Len(matrix) :
                   /\ Len(matrix'[i]) = Len(matrix)
                   /\ \A j \in 1..Len(matrix) : matrix'[i][j] = matrix[i][j]
             /\ ret'.isNull => DiagInv(matrix') = DiagInv(matrix)]_vars

\* invertMatrix returned null for [[1, 1], [1, 1]] after it had scaled the
\* first row of aug and eliminated the second
C30_Witness ==
    /\ call.op = "invertMatrix"
    /\ ret.isNull
    /\ matrix = <<<<One, One>>, <<One, One>>>>
    /\ AugLoop(AugmentedObjects(matrix), 2, 1).rows[2]
          = <<Zero, Zero, Int2Num(-1), One>>

====
